---- MODULE Spec2Model ----
(***************************************************************************)
(* Connect Four server: GameEngine (board rules), BotEngine (synthetic     *)
(* opponent), MatchmakingService (queue, sessions, disconnect grace) and   *)
(* the Socket.IO handlers that drive them.  Time is counted in seconds.    *)
(***************************************************************************)
EXTENDS Integers, Sequences, FiniteSets, TLC

\* ------------------------------------------------------------ constants
ROWS == 6
COLS == 7
EMPTY == 0
PLAYER1 == 1
PLAYER2 == 2
\* JS null for gameEngine.winner
NullPlayer == 0
\* JS null for a bot's socketId
NullSocket == 0
\* setTimeout delays, in seconds
WAIT == 10
GRACE == 30
\* the literal 7 of the handler's own range check
HANDLER_COLS == 7
\* the bot's 500 ms thinking delay, in whole seconds
BOT_DELAY == 0

WIN_SCORE == 10000
BLOCK_SCORE == 8000
INVALID_SCORE == -1000

NullName == "null"
BotName == "ConnectBot"

\* ------------------------------------------------------------ bounds
\* sockets that may ever connect
MaxSockets == 3
\* sessions that may ever be created
MaxSessions == 2
\* largest column a client submits in the full system (plus -1 and COLS)
MaxCol == 0
\* moves per session in the full system
MaxMoves == 1
\* how many seconds a due timer callback may still be waiting to run
MaxLate == 1
\* free play on one session: columns 0..PlayMaxCol, PlayMaxMoves moves
PlayMaxCol == 2
PlayMaxMoves == 7
\* the lifecycle of one session: columns 0..LifeMaxCol, LifeMaxMoves moves
LifeMaxCol == 0
LifeMaxMoves == 2

Sockets == 1..MaxSockets
Usernames == {"alice", "bob", "carol"}
GameModes == {"bot", "human"}

\* ------------------------------------------------------------ GameEngine
\* `const v = value; ...`: the value is computed once, then used
Const(value, Then(_)) == CHOOSE result \in {Then(v) : v \in {value}} : TRUE

initializeBoard == [r \in 0..(ROWS - 1) |-> [c \in 0..(COLS - 1) |-> EMPTY]]

NewGameEngine ==
  [board |-> initializeBoard,
   currentPlayer |-> PLAYER1,
   moveHistory |-> << >>,
   gameOver |-> FALSE,
   winner |-> NullPlayer,
   isDraw |-> FALSE]

InBoard(r, c) == r >= 0 /\ r < ROWS /\ c >= 0 /\ c < COLS

\* a search that stops at the top of the column: row 0 when it is empty
findRowFromTop(board, col, r) == IF board[0][col] = EMPTY THEN 0 ELSE -1

\* the for-loop of dropPiece / evaluateMove: first empty row from the bottom
RECURSIVE findRow(_, _, _)
findRow(board, col, r) ==
  IF r < 0 THEN -1
  ELSE IF board[r][col] = EMPTY THEN r
  ELSE findRow(board, col, r - 1)

\* one while-loop of countConsecutive, started at (r, c)
RECURSIVE countDirection(_, _, _, _, _, _)
countDirection(board, r, c, dr, dc, player) ==
  IF InBoard(r, c) /\ board[r][c] = player
  THEN 1 + countDirection(board, r + dr, c + dc, dr, dc, player)
  ELSE 0

\* a countConsecutive that forgets the negative direction
countConsecutiveForward(board, row, col, dr, dc, player) ==
  1 + countDirection(board, row + dr, col + dc, dr, dc, player)

countConsecutive(board, row, col, dr, dc, player) ==
  1 + countDirection(board, row + dr, col + dc, dr, dc, player)
    + countDirection(board, row - dr, col - dc, 0 - dr, 0 - dc, player)

\* a checkWin that is content with three in a line
checkWinOfThree(board, row, col, player) ==
  \/ countConsecutive(board, row, col, 0, 1, player) >= 3
  \/ countConsecutive(board, row, col, 1, 0, player) >= 3
  \/ countConsecutive(board, row, col, 1, 1, player) >= 3
  \/ countConsecutive(board, row, col, 1, -1, player) >= 3

\* a checkWin that forgets the horizontal axis
checkWinNoHorizontal(board, row, col, player) ==
  \/ countConsecutive(board, row, col, 1, 0, player) >= 4
  \/ countConsecutive(board, row, col, 1, 1, player) >= 4
  \/ countConsecutive(board, row, col, 1, -1, player) >= 4

checkWin(board, row, col, player) ==
  \/ countConsecutive(board, row, col, 0, 1, player) >= 4
  \/ countConsecutive(board, row, col, 1, 0, player) >= 4
  \/ countConsecutive(board, row, col, 1, 1, player) >= 4
  \/ countConsecutive(board, row, col, 1, -1, player) >= 4

\* an isBoardFull that looks at the first column only
isBoardFullFirstColumn(board) == board[0][0] # EMPTY

isBoardFull(board) == \A col \in 0..(COLS - 1) : board[0][col] # EMPTY

AllColumns == [i \in 1..COLS |-> i - 1]
ColumnOpen(board, col) == board[0][col] = EMPTY
getValidMoves(board) == SelectSeq(AllColumns, LAMBDA col : board[0][col] = EMPTY)

\* a getGameState that reports a cleared board
getGameStateCleared(g) ==
  [board |-> initializeBoard,
   currentPlayer |-> g.currentPlayer,
   gameOver |-> g.gameOver,
   winner |-> g.winner,
   isDraw |-> g.isDraw,
   moveHistory |-> g.moveHistory,
   validMoves |-> getValidMoves(g.board)]

\* getGameState: copies of the board and the move log, with the turn, the
\* terminal flags and the open columns
getGameState(g) ==
  [board |-> g.board,
   currentPlayer |-> g.currentPlayer,
   gameOver |-> g.gameOver,
   winner |-> g.winner,
   isDraw |-> g.isDraw,
   moveHistory |-> g.moveHistory,
   validMoves |-> getValidMoves(g.board)]

otherPlayer(player) == IF player = PLAYER1 THEN PLAYER2 ELSE PLAYER1

MoveFailure(msg) ==
  [success |-> FALSE, error |-> msg, row |-> -1, col |-> -1,
   gameOver |-> FALSE, winner |-> NullPlayer, isDraw |-> FALSE]

MoveSuccess(row, col, over, winner, draw) ==
  [success |-> TRUE, error |-> "", row |-> row, col |-> col,
   gameOver |-> over, winner |-> winner, isDraw |-> draw]

\* dropPiece past its two checks: place the piece, log it, look for the end
\* a placePiece that leaves the piece at the top of the column
placePieceAtTop(g, col) ==
  [engine |-> [g EXCEPT !.board[0][col] = g.currentPlayer,
                        !.moveHistory = Append(@, [row |-> 0, col |-> col, player |-> g.currentPlayer]),
                        !.currentPlayer = otherPlayer(g.currentPlayer)],
   result |-> MoveSuccess(0, col, FALSE, NullPlayer, FALSE)]

placePiece(g, col) ==
  Const(findRow(g.board, col, ROWS - 1), LAMBDA row :
    LET me == g.currentPlayer
    IN Const([g EXCEPT !.board[row][col] = me,
                       !.moveHistory = Append(@, [row |-> row, col |-> col, player |-> me])],
             LAMBDA placed :
               IF checkWin(placed.board, row, col, me)
               THEN [engine |-> [placed EXCEPT !.gameOver = TRUE, !.winner = me],
                     result |-> MoveSuccess(row, col, TRUE, me, FALSE)]
               ELSE IF isBoardFull(placed.board)
               THEN [engine |-> [placed EXCEPT !.gameOver = TRUE, !.isDraw = TRUE],
                     result |-> MoveSuccess(row, col, TRUE, NullPlayer, TRUE)]
               ELSE [engine |-> [placed EXCEPT !.currentPlayer = otherPlayer(me)],
                     result |-> MoveSuccess(row, col, FALSE, NullPlayer, FALSE)]))

\* a dropPiece that hands the turn over before it looks at the column
dropPieceTurnFirst(g, col) ==
  IF col < 0 \/ col >= COLS
  THEN [engine |-> g, result |-> MoveFailure("Invalid column")]
  ELSE IF g.board[0][col] # EMPTY
  THEN [engine |-> [g EXCEPT !.currentPlayer = otherPlayer(@)],
        result |-> MoveFailure("Column is full")]
  ELSE placePiece(g, col)

\* dropPiece returns the engine after the call and the result object
dropPiece(g, col) ==
  IF col < 0 \/ col >= COLS
  THEN [engine |-> g, result |-> MoveFailure("Invalid column")]
  ELSE IF g.board[0][col] # EMPTY
  THEN [engine |-> g, result |-> MoveFailure("Column is full")]
  ELSE placePiece(g, col)

AdjacentDirections ==
  << <<0, 1>>, <<0, -1>>, <<1, 0>>, <<-1, 0>>, <<1, 1>>, <<-1, -1>>, <<1, -1>>, <<-1, 1>> >>

\* a count of the neighbours to the left and to the right only
countAdjacentPiecesSides(board, row, col, player) ==
  Cardinality({nc \in {col - 1, col + 1} : InBoard(row, nc) /\ board[row][nc] = player})

countAdjacentPieces(board, row, col, player) ==
  Cardinality({i \in 1..Len(AdjacentDirections) :
     LET nr == row + AdjacentDirections[i][1]
         nc == col + AdjacentDirections[i][2]
     IN InBoard(nr, nc) /\ board[nr][nc] = player})

Abs(x) == IF x < 0 THEN 0 - x ELSE x

\* an evaluateMove that leaves its trial piece on the board when it returns
\* the positional score
evaluateMoveKeepsTrial(board, col, player) ==
  LET row == IF col >= 0 /\ col < COLS THEN findRow(board, col, ROWS - 1) ELSE -1
      mine == [board EXCEPT ![row][col] = player]
      theirs == [board EXCEPT ![row][col] = otherPlayer(player)]
  IN IF row = -1 THEN [score |-> INVALID_SCORE, board |-> board]
     ELSE IF checkWin(mine, row, col, player) THEN [score |-> WIN_SCORE, board |-> board]
     ELSE IF checkWin(theirs, row, col, otherPlayer(player))
     THEN [score |-> BLOCK_SCORE, board |-> board]
     ELSE [score |-> (3 - Abs(col - 3)) * 100 + countAdjacentPieces(board, row, col, player) * 50,
           board |-> theirs]

\* evaluateMove writes the candidate into this.board and takes it out again:
\* the value is the score together with the board the call leaves behind
evaluateMove(board, col, player) ==
  Const(IF col >= 0 /\ col < COLS THEN findRow(board, col, ROWS - 1) ELSE -1, LAMBDA row :
    IF row = -1 THEN [score |-> INVALID_SCORE, board |-> board]
    ELSE
      Const([board EXCEPT ![row][col] = player], LAMBDA mine :
        IF checkWin(mine, row, col, player)
        THEN [score |-> WIN_SCORE, board |-> [mine EXCEPT ![row][col] = EMPTY]]
        ELSE
          Const([mine EXCEPT ![row][col] = otherPlayer(player)], LAMBDA theirs :
            IF checkWin(theirs, row, col, otherPlayer(player))
            THEN [score |-> BLOCK_SCORE, board |-> [theirs EXCEPT ![row][col] = EMPTY]]
            ELSE
              Const([theirs EXCEPT ![row][col] = EMPTY], LAMBDA cleared :
                [score |-> (3 - Abs(col - 3)) * 100
                           + countAdjacentPieces(cleared, row, col, player) * 50,
                 board |-> cleared]))))


\* ------------------------------------------------------------ BotEngine
\* a loop that goes on to the last column that scores >= 10000
RECURSIVE findWinningLast(_, _, _, _)
findWinningLast(board, moves, i, player) ==
  IF i > Len(moves) THEN [found |-> FALSE, col |-> -1, board |-> board]
  ELSE LET rest == findWinningLast(board, moves, i + 1, player)
       IN IF rest.found THEN rest
          ELSE IF evaluateMove(board, moves[i], player).score >= WIN_SCORE
          THEN [found |-> TRUE, col |-> moves[i], board |-> board]
          ELSE rest

\* a `for (const col of validMoves)` loop returning the first column that
\* scores >= 10000 for `player`; the board is the one each call leaves behind
RECURSIVE findWinning(_, _, _, _)
findWinning(board, moves, i, player) ==
  IF i > Len(moves) THEN [found |-> FALSE, col |-> -1, board |-> board]
  ELSE Const(evaluateMove(board, moves[i], player), LAMBDA e :
         IF e.score >= WIN_SCORE
         THEN [found |-> TRUE, col |-> moves[i], board |-> e.board]
         ELSE findWinning(e.board, moves, i + 1, player))

\* a last loop in which an equal score replaces the best as well
RECURSIVE pickBestTiesLater(_, _, _, _, _)
pickBestTiesLater(board, moves, i, bestCol, bestScore) ==
  IF i > Len(moves) THEN [col |-> bestCol, board |-> board]
  ELSE LET score == evaluateMove(board, moves[i], PLAYER2).score
       IN IF score >= bestScore
          THEN pickBestTiesLater(board, moves, i + 1, moves[i], score)
          ELSE pickBestTiesLater(board, moves, i + 1, bestCol, bestScore)

\* the last loop of getBestMove: strictly better scores replace the best
RECURSIVE pickBest(_, _, _, _, _)
pickBest(board, moves, i, bestCol, bestScore) ==
  IF i > Len(moves) THEN [col |-> bestCol, board |-> board]
  ELSE Const(evaluateMove(board, moves[i], PLAYER2), LAMBDA e :
         IF e.score > bestScore
         THEN pickBest(e.board, moves, i + 1, moves[i], e.score)
         ELSE pickBest(e.board, moves, i + 1, bestCol, bestScore))

\* a getBestMove that looks for the block before it looks for the win
getBestMoveBlockFirst(board) ==
  LET validMoves == getValidMoves(board)
      block == findWinning(board, validMoves, 1, PLAYER1)
      win == findWinning(board, validMoves, 1, PLAYER2)
  IN IF Len(validMoves) = 0 THEN [col |-> -1, board |-> board]
     ELSE IF block.found THEN [col |-> block.col, board |-> board]
     ELSE IF win.found THEN [col |-> win.col, board |-> board]
     ELSE pickBest(board, validMoves, 1, validMoves[1],
                   evaluateMove(board, validMoves[1], PLAYER2).score)

getBestMove(board) ==
  Const(getValidMoves(board), LAMBDA validMoves :
    IF Len(validMoves) = 0 THEN [col |-> -1, board |-> board]
    ELSE
      Const(findWinning(board, validMoves, 1, PLAYER2), LAMBDA win :
        IF win.found THEN [col |-> win.col, board |-> win.board]
        ELSE
          Const(findWinning(win.board, validMoves, 1, PLAYER1), LAMBDA block :
            IF block.found THEN [col |-> block.col, board |-> block.board]
            ELSE
              Const(evaluateMove(block.board, validMoves[1], PLAYER2), LAMBDA first :
                pickBest(first.board, validMoves, 1, validMoves[1], first.score)))))

\* a makeMove that answers in the column of the last move while it is open
makeMoveCopiesLast(g) ==
  LET best == getBestMove(g.board)
      last == IF Len(g.moveHistory) > 0 THEN g.moveHistory[Len(g.moveHistory)].col ELSE best.col
      col == IF best.col # -1 /\ ColumnOpen(g.board, last) THEN last ELSE best.col
  IN IF col = -1
     THEN [engine |-> g, threw |-> TRUE, result |-> MoveFailure("No valid moves available")]
     ELSE [engine |-> dropPiece(g, col).engine, threw |-> FALSE, result |-> dropPiece(g, col).result]

\* makeMove: threw is TRUE when it throws 'No valid moves available'
makeMove(g) ==
  Const(getBestMove(g.board), LAMBDA best :
    Const([g EXCEPT !.board = best.board], LAMBDA scored :
      IF best.col = -1
      THEN [engine |-> scored, threw |-> TRUE,
            result |-> MoveFailure("No valid moves available")]
      ELSE Const(dropPiece(scored, best.col), LAMBDA d :
             [engine |-> d.engine, threw |-> FALSE, result |-> d.result])))


\* ------------------------------------------------------------ state
\* Times are kept relative to the current instant (Date.now() is 0): a timer's
\* due is the number of seconds until it is due (negative once overdue), a
\* player's disconnectTime is the negated number of seconds since the
\* disconnect.  The code reads the clock only in differences.
VARIABLES
  waitingPlayers,       \* Map socketId -> entry, in insertion order
  activeSessions,       \* Map sessionId -> session, in insertion order
  matchmakingTimeouts,  \* Map socketId -> handle of the wait timer
  timers,               \* Node's pending setTimeout callbacks: handle -> due
  connections,          \* how many sockets have connected so far
  closed                \* sockets whose 'disconnect' event has been handled

vars == <<waitingPlayers, activeSessions, matchmakingTimeouts, timers, connections, closed>>

\* sockets are numbered in the order in which they connect
Open(socket) == socket <= connections /\ socket \notin closed

\* a setTimeout handle names the callback it will run
NoTimer == [kind |-> "none", socketId |-> NullSocket, sessionId |-> 0, isPlayer1 |-> FALSE]
WaitTimer(socketId) ==
  [kind |-> "wait", socketId |-> socketId, sessionId |-> 0, isPlayer1 |-> FALSE]
GraceTimer(sessionId, isPlayer1) ==
  [kind |-> "grace", socketId |-> NullSocket, sessionId |-> sessionId, isPlayer1 |-> isPlayer1]
BotTimer(sessionId) ==
  [kind |-> "bot", socketId |-> NullSocket, sessionId |-> sessionId, isPlayer1 |-> FALSE]

setTimeout(pending, handle, delay) ==
  [h \in DOMAIN pending \cup {handle} |-> IF h = handle THEN delay ELSE pending[h]]
\* a clearTimeout that cancels nothing
clearTimeoutKeeps(pending, handle) == pending

clearTimeout(pending, handle) == [h \in DOMAIN pending \ {handle} |-> pending[h]]

\* JS null for disconnectTime; in `Date.now() - null` it counts as 0, and the
\* wall clock itself is far beyond the grace window
NullTime == 1
WallClock == 100 * GRACE

\* the matchmaker's fields and the timer list, passed through its methods
Matchmaker ==
  [waitingPlayers |-> waitingPlayers, activeSessions |-> activeSessions,
   matchmakingTimeouts |-> matchmakingTimeouts, timers |-> timers]

Install(m) ==
  /\ waitingPlayers' = m.waitingPlayers
  /\ activeSessions' = m.activeSessions
  /\ matchmakingTimeouts' = m.matchmakingTimeouts
  /\ timers' = m.timers

NoMove == MoveFailure("")
Emit(event, message, move) == [event |-> event, message |-> message, move |-> move]
EmitError(message) == Emit("error", message, NoMove)

\* ------------------------------------------------------------ MatchmakingService
InQueue(queue, socketId) == \E i \in 1..Len(queue) : queue[i].socketId = socketId
QueueEntry(queue, socketId) ==
  queue[CHOOSE i \in 1..Len(queue) : queue[i].socketId = socketId]
QueueDelete(queue, socketId) == SelectSeq(queue, LAMBDA e : e.socketId # socketId)

HumanPlayer(socketId, username) ==
  [socketId |-> socketId, username |-> username, isBot |-> FALSE, connected |-> TRUE,
   disconnectTime |-> NullTime, reconnectTimeout |-> NoTimer]
BotPlayer(username) ==
  [socketId |-> NullSocket, username |-> username, isBot |-> TRUE, connected |-> TRUE,
   disconnectTime |-> NullTime, reconnectTimeout |-> NoTimer]

\* generateSessionId: a fresh id; sessions are numbered in creation order
createSession(m, player1SocketId, player1Username, player2SocketId, player2Username, isVsBot) ==
  LET sessionId == Len(m.activeSessions) + 1
      session ==
        [sessionId |-> sessionId,
         player1 |-> HumanPlayer(player1SocketId, player1Username),
         player2 |-> IF isVsBot THEN BotPlayer(player2Username)
                     ELSE HumanPlayer(player2SocketId, player2Username),
         isVsBot |-> isVsBot,
         gameEngine |-> NewGameEngine,
         result |-> NullName,
         winner |-> NullName]
  IN [m |-> [m EXCEPT !.activeSessions = Append(@, session)], sessionId |-> sessionId]

\* a spawnBotOpponent that gives up: no session, the entry stays queued
spawnBotOpponentGivesUp(m, playerSocketId) == [m |-> m, sessionId |-> 0]

spawnBotOpponent(m, playerSocketId) ==
  IF ~InQueue(m.waitingPlayers, playerSocketId)
  THEN [m |-> m, sessionId |-> 0]
  ELSE
    LET player == QueueEntry(m.waitingPlayers, playerSocketId)
        removed == [m EXCEPT !.waitingPlayers = QueueDelete(@, playerSocketId),
                             !.matchmakingTimeouts[playerSocketId] = NoTimer]
    IN createSession(removed, playerSocketId, player.username, NullSocket, BotName, TRUE)

\* a tryPairPlayers that never finds anybody
tryPairPlayersNobody(m, socketId) ==
  [m |-> m, paired |-> FALSE, sessionId |-> 0, opponent |-> NullName]

\* a tryPairPlayers that leaves the waiting player's timer running
tryPairPlayersKeepTimer(m, socketId) ==
  LET currentPlayer == QueueEntry(m.waitingPlayers, socketId)
      others == SelectSeq(m.waitingPlayers, LAMBDA e : e.socketId # socketId)
  IN IF Len(others) = 0
     THEN [m |-> m, paired |-> FALSE, sessionId |-> 0, opponent |-> NullName]
     ELSE
       LET other == others[1]
           otherId == other.socketId
           removed ==
             [m EXCEPT !.waitingPlayers = QueueDelete(QueueDelete(@, socketId), otherId),
                       !.timers = clearTimeout(@, m.matchmakingTimeouts[socketId]),
                       !.matchmakingTimeouts[socketId] = NoTimer]
           made == createSession(removed, socketId, currentPlayer.username,
                                 otherId, other.username, FALSE)
       IN [m |-> made.m, paired |-> TRUE, sessionId |-> made.sessionId,
           opponent |-> other.username]

tryPairPlayers(m, socketId) ==
  LET currentPlayer == QueueEntry(m.waitingPlayers, socketId)
      others == SelectSeq(m.waitingPlayers, LAMBDA e : e.socketId # socketId)
  IN IF Len(others) = 0
     THEN [m |-> m, paired |-> FALSE, sessionId |-> 0, opponent |-> NullName]
     ELSE
       LET other == others[1]
           otherId == other.socketId
           removed ==
             [m EXCEPT !.waitingPlayers = QueueDelete(QueueDelete(@, socketId), otherId),
                       !.timers = clearTimeout(clearTimeout(@, m.matchmakingTimeouts[otherId]),
                                               m.matchmakingTimeouts[socketId]),
                       !.matchmakingTimeouts[otherId] = NoTimer,
                       !.matchmakingTimeouts[socketId] = NoTimer]
           made == createSession(removed, socketId, currentPlayer.username,
                                 otherId, other.username, FALSE)
       IN [m |-> made.m, paired |-> TRUE, sessionId |-> made.sessionId,
           opponent |-> other.username]

UsernameInGame(sessions, username) ==
  \E i \in 1..Len(sessions) :
     sessions[i].player1.username = username \/ sessions[i].player2.username = username

\* joinQueue: the matchmaker afterwards and the result object
joinQueue(m, socketId, username, gameMode) ==
  IF InQueue(m.waitingPlayers, socketId)
  THEN [m |-> m, error |-> "Already in queue", sessionId |-> 0, paired |-> FALSE, isVsBot |-> FALSE]
  ELSE IF UsernameInGame(m.activeSessions, username)
  THEN [m |-> m, error |-> "Username already in game", sessionId |-> 0, paired |-> FALSE,
        isVsBot |-> FALSE]
  ELSE
    LET queued ==
          [m EXCEPT !.waitingPlayers =
             Append(@, [socketId |-> socketId, username |-> username, gameMode |-> gameMode])]
    IN IF gameMode = "bot"
       THEN LET bot == spawnBotOpponent(queued, socketId)
            IN [m |-> bot.m, error |-> "", sessionId |-> bot.sessionId, paired |-> FALSE,
                isVsBot |-> TRUE]
       ELSE
         LET pair == tryPairPlayers(queued, socketId)
         IN IF pair.paired
            THEN [m |-> pair.m, error |-> "", sessionId |-> pair.sessionId, paired |-> TRUE,
                  isVsBot |-> FALSE]
            ELSE
              LET timeoutId == WaitTimer(socketId)
              IN [m |-> [queued EXCEPT !.timers = setTimeout(@, timeoutId, WAIT),
                                       !.matchmakingTimeouts[socketId] = timeoutId],
                  error |-> "", sessionId |-> 0, paired |-> FALSE, isVsBot |-> FALSE]

\* first session, in insertion order, one of whose players has this socket; 0 if none
getSessionByPlayerId(sessions, socketId) ==
  LET hits == {i \in 1..Len(sessions) :
                 sessions[i].player1.socketId = socketId \/ sessions[i].player2.socketId = socketId}
  IN IF hits = {} THEN 0 ELSE CHOOSE i \in hits : \A j \in hits : i <= j

\* a markDisconnected that marks the first player of every session
markDisconnectedEverySession(m, socketId) ==
  [m EXCEPT !.activeSessions =
     [i \in 1..Len(@) |-> [@[i] EXCEPT !.player1.connected = FALSE, !.player1.disconnectTime = 0]]]

markDisconnected(m, socketId) ==
  LET sessionId == getSessionByPlayerId(m.activeSessions, socketId)
  IN IF sessionId = 0 THEN m
     ELSE
       LET session == m.activeSessions[sessionId]
           isPlayer1 == session.player1.socketId = socketId
           timeoutId == GraceTimer(sessionId, isPlayer1)
           mark(player) == [player EXCEPT !.connected = FALSE, !.disconnectTime = 0,
                                          !.reconnectTimeout = timeoutId]
       IN [m EXCEPT !.timers = setTimeout(@, timeoutId, GRACE),
                    !.activeSessions[sessionId] =
                       IF isPlayer1 THEN [session EXCEPT !.player1 = mark(@)]
                       ELSE [session EXCEPT !.player2 = mark(@)]]

\* a difference taken the wrong way round: player.disconnectTime - Date.now()
timeSinceDisconnectBackwards(player) ==
  IF player.disconnectTime = NullTime THEN 0 - WallClock ELSE player.disconnectTime

\* a difference that counts no time for a player who never disconnected
timeSinceDisconnectNullIsNow(player) ==
  IF player.disconnectTime = NullTime THEN 0 ELSE 0 - player.disconnectTime

\* Date.now() - player.disconnectTime
timeSinceDisconnect(player) ==
  IF player.disconnectTime = NullTime THEN WallClock ELSE 0 - player.disconnectTime

\* a reconnect that marks the player connected before it checks the window
reconnectMarksFirst(m, socketId, username, sessionId) ==
  IF ~(sessionId \in 1..Len(m.activeSessions))
  THEN [m |-> m, success |-> FALSE, error |-> "Session not found"]
  ELSE
    LET session == m.activeSessions[sessionId]
        isPlayer1 == session.player1.username = username
        isPlayer2 == session.player2.username = username
        player == IF isPlayer1 THEN session.player1 ELSE session.player2
        back == [player EXCEPT !.socketId = socketId, !.connected = TRUE,
                               !.disconnectTime = NullTime, !.reconnectTimeout = NoTimer]
        marked == [m EXCEPT !.timers = clearTimeout(@, player.reconnectTimeout),
                            !.activeSessions[sessionId] =
                               IF isPlayer1 THEN [session EXCEPT !.player1 = back]
                               ELSE [session EXCEPT !.player2 = back]]
    IN IF ~isPlayer1 /\ ~isPlayer2
       THEN [m |-> m, success |-> FALSE, error |-> "Username does not match session"]
       ELSE IF timeSinceDisconnect(player) > GRACE
       THEN [m |-> marked, success |-> FALSE, error |-> "Reconnection window expired (30 seconds)"]
       ELSE [m |-> marked, success |-> TRUE, error |-> ""]

reconnect(m, socketId, username, sessionId) ==
  IF ~(sessionId \in 1..Len(m.activeSessions))
  THEN [m |-> m, success |-> FALSE, error |-> "Session not found"]
  ELSE
    LET session == m.activeSessions[sessionId]
        isPlayer1 == session.player1.username = username
        isPlayer2 == session.player2.username = username
        player == IF isPlayer1 THEN session.player1 ELSE session.player2
        back == [player EXCEPT !.socketId = socketId, !.connected = TRUE,
                               !.disconnectTime = NullTime, !.reconnectTimeout = NoTimer]
    IN IF ~isPlayer1 /\ ~isPlayer2
       THEN [m |-> m, success |-> FALSE, error |-> "Username does not match session"]
       ELSE IF timeSinceDisconnect(player) > GRACE
       THEN [m |-> m, success |-> FALSE, error |-> "Reconnection window expired (30 seconds)"]
       ELSE [m |-> [m EXCEPT !.timers = clearTimeout(@, player.reconnectTimeout),
                             !.activeSessions[sessionId] =
                                IF isPlayer1 THEN [session EXCEPT !.player1 = back]
                                ELSE [session EXCEPT !.player2 = back]],
             success |-> TRUE, error |-> ""]

\* a forfeitGame that names the player who left as the winner
forfeitGameLeaverWins(m, sessionId, isPlayer1) ==
  IF ~(sessionId \in 1..Len(m.activeSessions)) \/ m.activeSessions[sessionId].gameEngine.gameOver
  THEN m
  ELSE
    LET session == m.activeSessions[sessionId]
    IN [m EXCEPT !.activeSessions[sessionId] =
          [session EXCEPT !.gameEngine.gameOver = TRUE,
                          !.result = "forfeit",
                          !.winner = IF isPlayer1 THEN session.player1.username
                                     ELSE session.player2.username]]

\* a forfeitGame that does not look at gameOver
forfeitGameAgain(m, sessionId, isPlayer1) ==
  IF ~(sessionId \in 1..Len(m.activeSessions))
  THEN m
  ELSE
    LET session == m.activeSessions[sessionId]
    IN [m EXCEPT !.activeSessions[sessionId] =
          [session EXCEPT !.gameEngine.gameOver = TRUE,
                          !.result = "forfeit",
                          !.winner = IF isPlayer1 THEN session.player2.username
                                     ELSE session.player1.username]]

forfeitGame(m, sessionId, isPlayer1) ==
  IF ~(sessionId \in 1..Len(m.activeSessions)) \/ m.activeSessions[sessionId].gameEngine.gameOver
  THEN m
  ELSE
    LET session == m.activeSessions[sessionId]
    IN [m EXCEPT !.activeSessions[sessionId] =
          [session EXCEPT !.gameEngine.gameOver = TRUE,
                          !.result = "forfeit",
                          !.winner = IF isPlayer1 THEN session.player2.username
                                     ELSE session.player1.username]]

\* ------------------------------------------------------------ socket handlers
SessionExists(sessionId) == sessionId \in 1..Len(activeSessions)

\* io.on('connection'): a new socket
OnConnection ==
  /\ connections < MaxSockets
  /\ connections' = connections + 1
  /\ UNCHANGED <<waitingPlayers, activeSessions, matchmakingTimeouts, timers, closed>>

\* onJoinQueue: the matchmaker afterwards and what the handler emits
joinQueueOutcome(m, socket, username, gameMode) ==
  LET r == joinQueue(m, socket, username, gameMode)
  IN [m |-> r.m,
      emit |-> IF r.error # "" THEN EmitError(r.error)
               ELSE IF r.isVsBot /\ gameMode = "bot" THEN Emit("gameMatched", BotName, NoMove)
               ELSE IF r.paired THEN Emit("gameMatched", r.m.activeSessions[r.sessionId].player2.username, NoMove)
               ELSE Emit("waitingForOpponent", "", NoMove)]

OnJoinQueue(socket, username, gameMode) ==
  /\ Open(socket)
  /\ \E after \in {joinQueueOutcome(Matchmaker, socket, username, gameMode).m} : Install(after)
  /\ UNCHANGED <<connections, closed>>

\* a turn check that lets either player move
notPlayersTurnNever(session, playerNumber) == FALSE

\* onMakeMove's turn check
notPlayersTurn(session, playerNumber) == session.gameEngine.currentPlayer # playerNumber

\* what onMakeMove emits and leaves behind, the bot's reply timer included
makeMoveOutcome(m, socket, sessionId, column) ==
  IF ~(sessionId \in 1..Len(m.activeSessions))
  THEN [m |-> m, emit |-> EmitError("Game session not found")]
  ELSE IF column < 0 \/ column >= HANDLER_COLS
  THEN [m |-> m, emit |-> EmitError("Invalid column")]
  ELSE
    LET session == m.activeSessions[sessionId]
        isPlayer1 == session.player1.socketId = socket
        isPlayer2 == session.player2.socketId = socket
        playerNumber == IF isPlayer1 THEN PLAYER1 ELSE PLAYER2
    IN IF ~isPlayer1 /\ ~isPlayer2
       THEN [m |-> m, emit |-> EmitError("Not your game")]
       ELSE IF notPlayersTurn(session, playerNumber)
       THEN [m |-> m, emit |-> EmitError("Not your turn")]
       ELSE
         Const(dropPiece(session.gameEngine, column), LAMBDA moved :
           LET moveResult == moved.result
               played == [session EXCEPT !.gameEngine = moved.engine]
           IN IF ~moveResult.success
              THEN [m |-> m, emit |-> EmitError(moveResult.error)]
              ELSE IF moveResult.gameOver
              THEN [m |-> [m EXCEPT !.activeSessions[sessionId] =
                             [played EXCEPT
                                !.result = IF moveResult.isDraw THEN "draw" ELSE "win",
                                !.winner = IF moveResult.winner # NullPlayer
                                           THEN (IF moveResult.winner = PLAYER1
                                                 THEN session.player1.username
                                                 ELSE session.player2.username)
                                           ELSE NullName]],
                    emit |-> Emit("gameEnded", "", moveResult)]
              ELSE [m |-> [m EXCEPT !.activeSessions[sessionId] = played,
                                    !.timers = IF session.isVsBot
                                               THEN setTimeout(@, BotTimer(sessionId), BOT_DELAY)
                                               ELSE @],
                    emit |-> Emit("gameState", "", moveResult)])

OnMakeMove(socket, sessionId, column) ==
  /\ Open(socket)
  /\ \E after \in {makeMoveOutcome(Matchmaker, socket, sessionId, column).m} : Install(after)
  /\ UNCHANGED <<connections, closed>>

\* the setTimeout callback of onMakeMove: the bot's reply
botReply(m, sessionId) ==
  Const(makeMove(m.activeSessions[sessionId].gameEngine), LAMBDA made :
    LET session == m.activeSessions[sessionId]
        botMoveResult == made.result
        played == [session EXCEPT !.gameEngine = made.engine]
    IN IF made.threw
       THEN [m |-> [m EXCEPT !.activeSessions[sessionId] = played],
             emit |-> Emit("none", "Bot move error", NoMove)]
       ELSE IF botMoveResult.gameOver
       THEN [m |-> [m EXCEPT !.activeSessions[sessionId] =
                      [played EXCEPT
                         !.result = IF botMoveResult.isDraw THEN "draw" ELSE "win",
                         !.winner = IF botMoveResult.winner = PLAYER2 THEN BotName
                                    ELSE session.player1.username]],
             emit |-> Emit("gameEnded", "", botMoveResult)]
       ELSE [m |-> [m EXCEPT !.activeSessions[sessionId] = played],
             emit |-> Emit("gameState", "", botMoveResult)])

\* a pending callback may run once it is due
Due(handle) == handle \in DOMAIN timers /\ timers[handle] <= 0
Fired(handle) == [Matchmaker EXCEPT !.timers = clearTimeout(@, handle)]

BotMoveTimeout(sessionId) ==
  /\ Due(BotTimer(sessionId))
  /\ \E after \in {botReply(Fired(BotTimer(sessionId)), sessionId).m} : Install(after)
  /\ UNCHANGED <<connections, closed>>

\* an onDisconnect that forgets the queue
disconnectOutcomeKeepsEntry(m, socket) ==
  IF getSessionByPlayerId(m.activeSessions, socket) = 0
  THEN [m |-> m, emit |-> Emit("none", "", NoMove)]
  ELSE [m |-> markDisconnected(m, socket), emit |-> Emit("playerDisconnected", "", NoMove)]

\* onDisconnect; a socket's 'disconnect' event is delivered once
disconnectOutcome(m, socket) ==
  IF InQueue(m.waitingPlayers, socket)
  THEN [m |-> [m EXCEPT !.waitingPlayers = QueueDelete(@, socket),
                        !.timers = clearTimeout(@, m.matchmakingTimeouts[socket]),
                        !.matchmakingTimeouts[socket] = NoTimer],
        emit |-> Emit("none", "", NoMove)]
  ELSE IF getSessionByPlayerId(m.activeSessions, socket) = 0
  THEN [m |-> m, emit |-> Emit("none", "", NoMove)]
  ELSE [m |-> markDisconnected(m, socket), emit |-> Emit("playerDisconnected", "", NoMove)]

OnDisconnect(socket) ==
  /\ Open(socket)
  /\ closed' = closed \cup {socket}
  /\ \E after \in {disconnectOutcome(Matchmaker, socket).m} : Install(after)
  /\ UNCHANGED connections

\* onReconnect
reconnectOutcome(m, socket, username, sessionId) ==
  LET r == reconnect(m, socket, username, sessionId)
  IN IF ~r.success THEN [m |-> m, emit |-> EmitError(r.error)]
     ELSE
       LET session == r.m.activeSessions[sessionId]
       IN [m |-> [r.m EXCEPT !.activeSessions[sessionId] =
                    IF session.player1.username = username
                    THEN [session EXCEPT !.player1.socketId = socket]
                    ELSE [session EXCEPT !.player2.socketId = socket]],
           emit |-> Emit("playerReconnected", username, NoMove)]

\* the gameState that onReconnect sends with playerReconnected, read after
\* the reconnect; nothing is sent when the reconnect fails
reconnectGameState(m, socket, username, sessionId) ==
  getGameState(reconnectOutcome(m, socket, username, sessionId).m.activeSessions[sessionId].gameEngine)

OnReconnect(socket, username, sessionId) ==
  /\ Open(socket)
  /\ \E after \in {reconnectOutcome(Matchmaker, socket, username, sessionId).m} : Install(after)
  /\ UNCHANGED <<connections, closed>>

\* the setTimeout callback of joinQueue
MatchmakingTimeout(socket) ==
  /\ Due(WaitTimer(socket))
  /\ \E after \in {spawnBotOpponent(Fired(WaitTimer(socket)), socket).m} : Install(after)
  /\ UNCHANGED <<connections, closed>>

\* the setTimeout callback of markDisconnected
ReconnectTimeout(sessionId, isPlayer1) ==
  /\ Due(GraceTimer(sessionId, isPlayer1))
  /\ \E after \in {forfeitGame(Fired(GraceTimer(sessionId, isPlayer1)), sessionId, isPlayer1)} : Install(after)
  /\ UNCHANGED <<connections, closed>>

\* ------------------------------------------------------------ the clock
\* delta seconds pass: every stored time moves delta further into the past.
\* A disconnect older than the grace window and the latest run of its timer
\* is not told apart any further.
Older(time, delta) ==
  IF time = NullTime THEN NullTime
  ELSE IF time - delta < 0 - (GRACE + MaxLate) THEN 0 - (GRACE + MaxLate) ELSE time - delta

Elapse(session, delta) ==
  [session EXCEPT !.player1.disconnectTime = Older(@, delta),
                  !.player2.disconnectTime = Older(@, delta)]

\* the clock moves to the next instant at which something can differ: when a
\* pending timer becomes due, or later while its callback still waits to run
\* (a callback runs at most MaxLate seconds late)
Instants == {timers[h] + k : h \in DOMAIN timers, k \in 0..MaxLate}
Tick ==
  /\ \E delta \in Instants :
       /\ delta > 0
       /\ \A other \in Instants : other > 0 => delta <= other
       /\ \A h \in DOMAIN timers : timers[h] - delta >= 0 - MaxLate
       /\ timers' = [h \in DOMAIN timers |-> timers[h] - delta]
       /\ activeSessions' = [i \in 1..Len(activeSessions) |-> Elapse(activeSessions[i], delta)]
  /\ UNCHANGED <<waitingPlayers, matchmakingTimeouts, connections, closed>>

\* ------------------------------------------------------------ specifications
NoTimers == [h \in {} |-> 0]

Init ==
  /\ waitingPlayers = << >>
  /\ activeSessions = << >>
  /\ matchmakingTimeouts = [s \in Sockets |-> NoTimer]
  /\ timers = NoTimers
  /\ connections = 0
  /\ closed = {}

MoveCount(sessionId) ==
  IF SessionExists(sessionId) THEN Len(activeSessions[sessionId].gameEngine.moveHistory) ELSE 0

\* the columns played so far in a session, in order
RECURSIVE ColumnsOf(_)
ColumnsOf(history) ==
  IF Len(history) = 0 THEN << >>
  ELSE Append(ColumnsOf(SubSeq(history, 1, Len(history) - 1)), history[Len(history)].col)

ColumnsPlayed(sessionId) ==
  IF SessionExists(sessionId) THEN ColumnsOf(activeSessions[sessionId].gameEngine.moveHistory)
  ELSE << >>

IsPrefix(p, q) == Len(p) <= Len(q) /\ SubSeq(q, 1, Len(p)) = p

\* the whole server: every handler and every timer
Next ==
  \/ OnConnection
  \/ \E socket \in Sockets, username \in Usernames, gameMode \in GameModes :
       /\ Len(activeSessions) + Len(waitingPlayers) < MaxSessions
       /\ OnJoinQueue(socket, username, gameMode)
  \/ \E socket \in Sockets, sessionId \in 1..MaxSessions, column \in (-1..MaxCol) \cup {COLS} :
       /\ MoveCount(sessionId) < MaxMoves
       /\ OnMakeMove(socket, sessionId, column)
  \/ \E sessionId \in 1..MaxSessions : BotMoveTimeout(sessionId)
  \/ \E socket \in Sockets : OnDisconnect(socket)
  \/ \E socket \in Sockets, username \in Usernames \cup {BotName}, sessionId \in 1..MaxSessions :
       OnReconnect(socket, username, sessionId)
  \/ \E socket \in Sockets : MatchmakingTimeout(socket)
  \/ \E sessionId \in 1..MaxSessions, isPlayer1 \in BOOLEAN : ReconnectTimeout(sessionId, isPlayer1)
  \/ Tick

Spec == Init /\ [][Next]_vars

\* ---- matchmaking: joins, queue disconnects and the wait timer, no play
NextMatch ==
  \/ OnConnection
  \/ \E socket \in Sockets, username \in Usernames, gameMode \in GameModes :
       /\ \/ Len(activeSessions) + Len(waitingPlayers) < MaxSessions
          \/ /\ Len(activeSessions) + Len(waitingPlayers) = MaxSessions
             /\ Len(waitingPlayers) > 0 /\ gameMode = "human"
       /\ OnJoinQueue(socket, username, gameMode)
  \/ \E socket \in Sockets : OnDisconnect(socket)
  \/ \E socket \in Sockets : MatchmakingTimeout(socket)
  \/ \E sessionId \in 1..MaxSessions, isPlayer1 \in BOOLEAN : ReconnectTimeout(sessionId, isPlayer1)
  \/ Tick

SpecMatch == Init /\ [][NextMatch]_vars

\* ---- one session at a time: the k-th socket joins under the k-th name
Names == <<"alice", "bob">>
NameOf(socket) == Names[socket]

JoinOne ==
  \E socket \in 1..Len(Names), gameMode \in GameModes :
     /\ Len(activeSessions) = 0
     /\ (Len(waitingPlayers) = 0 \/ gameMode = "human")
     /\ OnJoinQueue(socket, NameOf(socket), gameMode)

\* ---- connection lifecycle of one session: drops, reconnects, grace timer,
\* a few moves
NextLife ==
  \/ OnConnection
  \/ JoinOne
  \/ \E socket \in Sockets, column \in 0..LifeMaxCol :
       /\ MoveCount(1) < LifeMaxMoves
       /\ OnMakeMove(socket, 1, column)
  \/ BotMoveTimeout(1)
  \/ \E socket \in Sockets : OnDisconnect(socket)
  \/ \E socket \in Sockets, username \in Usernames \cup {BotName}, sessionId \in 1..2 :
       OnReconnect(socket, username, sessionId)
  \/ \E socket \in Sockets : MatchmakingTimeout(socket)
  \/ \E isPlayer1 \in BOOLEAN : ReconnectTimeout(1, isPlayer1)
  \/ Tick

SpecLife == Init /\ [][NextLife]_vars

\* the event loop runs every timer callback that is due, and time goes on
SpecLifeFair ==
  /\ SpecLife
  /\ WF_vars(Tick)
  /\ WF_vars(BotMoveTimeout(1))
  /\ WF_vars(\E socket \in Sockets : MatchmakingTimeout(socket))
  /\ \A isPlayer1 \in BOOLEAN : WF_vars(ReconnectTimeout(1, isPlayer1))

\* ---- play on one session: every game over the columns 0..PlayMaxCol up to
\* PlayMaxMoves moves, and the scripted games below move by move
VerticalGame == <<0, 1, 0, 1, 0, 1, 0, 0>>
DiagonalGame == <<0, 1, 1, 2, 2, 3, 2, 3, 3, 4, 3>>
RisingGame == <<0, 1, 1, 2, 2, 3, 2, 3, 3, 6, 3, 3>>
FallingGame == <<6, 5, 5, 4, 4, 3, 4, 3, 3, 0, 3, 3>>
SecondPlayerGame == <<0, 1, 0, 1, 2, 1, 2, 1, 1>>
HorizontalGame == <<0, 0, 1, 1, 2, 2, 3, 3>>
\* forty moves without a line of four, then the last two cells: taken one way
\* round the board fills with no line, the other way round the last piece
\* completes a line for the second player
FillingGame ==
  <<4, 1, 6, 2, 1, 0, 1, 4, 4, 2, 4, 1, 3, 6, 3, 3, 1, 0, 4, 6,
    6, 1, 2, 3, 2, 3, 2, 2, 6, 5, 5, 0, 5, 4, 6, 5, 5, 5, 0, 0>>
DrawGame == FillingGame \o <<3, 0>>
LastCellWinGame == FillingGame \o <<0, 3>>
\* against the bot: the human lines up three on the bottom row with both ends
\* open, and the bot blocks the lower end
DoubleThreatGame == <<3, 3, 1, 3, 2, 0>>
\* against the bot: columns 2, 3 and 4 score alike, and the bot takes column 2
TieGame == <<0, 3, 0, 3, 3, 2>>
\* against the bot: the human's columns and the bot's replies fill the board
\* with no line of four, and the last cell is the bot's
BotDrawGame ==
  <<0, 3, 0, 3, 0, 0, 0, 3, 3, 2, 0, 2, 1, 2, 2, 3, 4, 3, 4, 2, 4,
    4, 2, 4, 4, 1, 1, 1, 1, 1, 5, 5, 5, 5, 5, 5, 6, 6, 6, 6, 6, 6>>
\* the first player completes column 0, moves once more elsewhere, and the
\* second player then completes column 1
OvertakenGame == <<0, 1, 0, 1, 0, 1, 0, 2, 1>>
\* against the bot: the bot stacks column 3 and completes it rather than
\* blocking column 0
BotWinsGame == <<0, 3, 0, 3, 1, 3, 0, 3>>
\* against the bot: the human completes the bottom row at its open end, and
\* then moves once more
BeatsBotGame == DoubleThreatGame \o <<4, 4>>
Scripts ==
  {VerticalGame, HorizontalGame, DiagonalGame, RisingGame, FallingGame, SecondPlayerGame,
   DrawGame, LastCellWinGame, DoubleThreatGame, TieGame, BotDrawGame, OvertakenGame,
   BotWinsGame, BeatsBotGame}

Scripted(columns) == \E script \in Scripts : IsPrefix(columns, script)
FreePlay(column) == MoveCount(1) < PlayMaxMoves /\ column <= PlayMaxCol

NextPlay ==
  \/ (connections < Len(Names) /\ OnConnection)
  \/ JoinOne
  \/ \E socket \in Sockets, column \in -1..COLS :
       /\ LET columns == Append(ColumnsPlayed(1), column)
          IN column \in 0..(COLS - 1) => (FreePlay(column) \/ Scripted(columns))
       /\ OnMakeMove(socket, 1, column)
  \/ BotMoveTimeout(1)

SpecPlay == Init /\ [][NextPlay]_vars


\* ------------------------------------------------------------ properties
Session(sessionId) == activeSessions[sessionId]
SessionIds == 1..Len(activeSessions)
Engine(sessionId) == activeSessions[sessionId].gameEngine

\* the socket that holds the turn in a session (NullSocket for the bot)
TurnSocket(sessionId) ==
  IF Engine(sessionId).currentPlayer = PLAYER1 THEN Session(sessionId).player1.socketId
  ELSE Session(sessionId).player2.socketId

\* C1: a move into a full column fails with 'Column is full' and a move to a
\* column outside [0,7) fails with 'Invalid column', in the engine and
\* through onMakeMove, and nothing of the server's state changes
ColumnErrorsChangeNothing ==
  \A sessionId \in SessionIds :
    LET g == Engine(sessionId)
    IN /\ \A column \in {-2, -1, COLS, COLS + 1} :
            /\ dropPiece(g, column) = [engine |-> g, result |-> MoveFailure("Invalid column")]
            /\ \A socket \in Sockets :
                 makeMoveOutcome(Matchmaker, socket, sessionId, column)
                   = [m |-> Matchmaker, emit |-> EmitError("Invalid column")]
       /\ \A column \in 0..(COLS - 1) :
            g.board[0][column] # EMPTY =>
              /\ dropPiece(g, column) = [engine |-> g, result |-> MoveFailure("Column is full")]
              /\ makeMoveOutcome(Matchmaker, TurnSocket(sessionId), sessionId, column)
                   = [m |-> Matchmaker, emit |-> EmitError("Column is full")]

\* a column is full while its session is still being played and the socket
\* whose turn it is can ask for it
FullColumnOnTurn ==
  \E sessionId \in SessionIds, column \in 0..(COLS - 1) :
    /\ Engine(sessionId).board[0][column] # EMPTY
    /\ ~Engine(sessionId).gameOver
    /\ Open(TurnSocket(sessionId))

\* reference scan: some window of four cells on one of the four lines through
\* (row, col) holds only `player` and contains (row, col)
Axes == {<<0, 1>>, <<1, 0>>, <<1, 1>>, <<1, -1>>}
RunOnAxis(board, row, col, player, axis) ==
  \E k \in 0..3 :
    \A i \in 0..3 :
      LET r == row + (i - k) * axis[1]
          c == col + (i - k) * axis[2]
      IN InBoard(r, c) /\ board[r][c] = player
RunThrough(board, row, col, player) ==
  \E axis \in Axes : RunOnAxis(board, row, col, player, axis)

Occupied(board) ==
  {cell \in (0..(ROWS - 1)) \X (0..(COLS - 1)) : board[cell[1]][cell[2]] # EMPTY}

\* C2: on every board reached by play, checkWin at a placed cell is true
\* exactly when a run of four of that mark passes through the cell, and the
\* engine has recorded a winner exactly when the board holds such a run
WinDetectionAgrees ==
  \A sessionId \in SessionIds :
    LET g == Engine(sessionId)
    IN /\ \A cell \in Occupied(g.board) :
            checkWin(g.board, cell[1], cell[2], g.board[cell[1]][cell[2]])
              <=> RunThrough(g.board, cell[1], cell[2], g.board[cell[1]][cell[2]])
       /\ (g.winner # NullPlayer)
            <=> \E cell \in Occupied(g.board) :
                   RunThrough(g.board, cell[1], cell[2], g.board[cell[1]][cell[2]])
       /\ g.winner # NullPlayer =>
            \E cell \in Occupied(g.board) :
               /\ g.board[cell[1]][cell[2]] = g.winner
               /\ RunThrough(g.board, cell[1], cell[2], g.winner)

\* a win was reported for a run on a diagonal alone
DiagonalWinReported ==
  \E sessionId \in SessionIds :
    LET g == Engine(sessionId)
        last == g.moveHistory[Len(g.moveHistory)]
    IN /\ Len(g.moveHistory) > 0
       /\ g.winner = last.player
       /\ RunOnAxis(g.board, last.row, last.col, last.player, <<1, -1>>)
       /\ ~RunOnAxis(g.board, last.row, last.col, last.player, <<0, 1>>)
       /\ ~RunOnAxis(g.board, last.row, last.col, last.player, <<1, 0>>)

\* C3 as stated: along A:0, B:1, A:1, B:2, A:2, B:3, A:2, B:3, A:3, B:4, A:3
\* no win is reported on the first ten moves and A wins on the eleventh
DiagonalGameWonOnEleventh ==
  \A sessionId \in SessionIds :
    LET g == Engine(sessionId)
        columns == ColumnsOf(g.moveHistory)
    IN IsPrefix(columns, DiagonalGame) =>
         /\ Len(columns) < Len(DiagonalGame) => (~g.gameOver /\ g.winner = NullPlayer)
         /\ Len(columns) = Len(DiagonalGame) => g.winner = PLAYER1

\* C3 amended: along that game no win is reported on the first nine moves, B
\* wins on the tenth (B:4 completes the bottom row (5,1)..(5,4)), A's
\* eleventh move is answered 'Not your turn', and the eleventh piece, if it is
\* placed at all, is B's
DiagonalGameWonOnTenth ==
  \A sessionId \in SessionIds :
    LET g == Engine(sessionId)
        columns == ColumnsOf(g.moveHistory)
    IN IsPrefix(columns, DiagonalGame) =>
         /\ Len(columns) < 10 => (~g.gameOver /\ g.winner = NullPlayer)
         /\ Len(columns) >= 10 =>
              /\ g.gameOver /\ g.winner = PLAYER2
              /\ g.moveHistory[10] = [row |-> 5, col |-> 4, player |-> PLAYER2]
              /\ \A c \in 1..4 : g.board[5][c] = PLAYER2
         /\ Len(columns) = 10 =>
              makeMoveOutcome(Matchmaker, Session(sessionId).player1.socketId, sessionId, 3)
                = [m |-> Matchmaker, emit |-> EmitError("Not your turn")]
         /\ Len(columns) = 11 => g.board[2][3] = PLAYER2

\* two humans have played the first ten moves of that game
DiagonalGameTenthPlayed ==
  \E sessionId \in SessionIds :
    /\ ~Session(sessionId).isVsBot
    /\ Len(Engine(sessionId).moveHistory) = 10
    /\ ColumnsPlayed(sessionId) = SubSeq(DiagonalGame, 1, 10)

\* C4 as stated: once a session is over, its board, move log and turn never
\* change again
TerminalSessionFrozen ==
  [][\A sessionId \in SessionIds :
       Engine(sessionId).gameOver =>
         /\ activeSessions'[sessionId].gameEngine.board = Engine(sessionId).board
         /\ activeSessions'[sessionId].gameEngine.moveHistory = Engine(sessionId).moveHistory
         /\ activeSessions'[sessionId].gameEngine.currentPlayer = Engine(sessionId).currentPlayer]_vars

\* the bot's reply to the human's move is still to come
BotReplyPending(sessionId) == BotTimer(sessionId) \in DOMAIN timers

QueuedSockets == {waitingPlayers[i].socketId : i \in 1..Len(waitingPlayers)}
QueuedNames == {waitingPlayers[i].username : i \in 1..Len(waitingPlayers)}
HumanSockets(session) ==
  {session.player1.socketId} \cup (IF session.isVsBot THEN {} ELSE {session.player2.socketId})
Participants(session) == {session.player1.username, session.player2.username}
Live(session) == ~session.gameEngine.gameOver

\* a human-mode join of `username` on `socket` meets the queued `other`:
\* one session of the two, neither left in the queue, neither timer left,
\* and either timer's callback, were it to run all the same, does nothing
PairsWith(socket, username, other) ==
  LET out == joinQueue(Matchmaker, socket, username, "human")
      made == out.m.activeSessions[Len(out.m.activeSessions)]
  IN /\ out.error = "" /\ out.paired
     /\ Len(out.m.activeSessions) = Len(activeSessions) + 1
     /\ SubSeq(out.m.activeSessions, 1, Len(activeSessions)) = activeSessions
     /\ ~made.isVsBot
     /\ made.player1.socketId = socket /\ made.player1.username = username
     /\ made.player2.socketId = other.socketId /\ made.player2.username = other.username
     /\ ~InQueue(out.m.waitingPlayers, socket) /\ ~InQueue(out.m.waitingPlayers, other.socketId)
     /\ WaitTimer(socket) \notin DOMAIN out.m.timers
     /\ WaitTimer(other.socketId) \notin DOMAIN out.m.timers
     /\ spawnBotOpponent(out.m, socket).m = out.m
     /\ spawnBotOpponent(out.m, other.socketId).m = out.m

PairedOnJoin ==
  /\ \A socket \in Sockets :
       (WaitTimer(socket) \in DOMAIN timers) <=> (socket \in QueuedSockets)
  /\ \A i \in 1..Len(waitingPlayers), socket \in Sockets, username \in Usernames :
       /\ socket # waitingPlayers[i].socketId
       /\ username # waitingPlayers[i].username
       /\ ~UsernameInGame(activeSessions, username)
       => PairsWith(socket, username, waitingPlayers[i])

\* a step adds at most one session, made of entries that leave the queue (or
\* of the joiner), and the sessions there were keep their participants
OneSessionPerEntry ==
  LET before == Len(activeSessions)
      made == activeSessions'[before + 1]
  IN /\ Len(activeSessions') \in {before, before + 1}
     /\ \A i \in 1..before :
          /\ activeSessions'[i].player1.username = activeSessions[i].player1.username
          /\ activeSessions'[i].player2.username = activeSessions[i].player2.username
          /\ activeSessions'[i].isVsBot = activeSessions[i].isVsBot
     /\ Len(activeSessions') = before + 1 =>
          \A socket \in HumanSockets(made) :
             /\ ~InQueue(waitingPlayers', socket)
             /\ WaitTimer(socket) \notin DOMAIN timers'
     /\ Len(activeSessions') = before => Len(waitingPlayers') >= Len(waitingPlayers) - 1
     /\ Len(activeSessions') = before + 1 =>
          Len(waitingPlayers') >= Len(waitingPlayers) - Cardinality(HumanSockets(made))

DuplicateIdentityRefused ==
  /\ \A socket \in Sockets, username \in Usernames, gameMode \in GameModes :
       (username \in QueuedNames
          \/ \E i \in SessionIds : Live(Session(i)) /\ username \in Participants(Session(i)))
       => LET out == joinQueue(Matchmaker, socket, username, gameMode)
          IN out.error # "" /\ out.m = Matchmaker
  /\ \A i, j \in 1..Len(waitingPlayers) :
       waitingPlayers[i].username = waitingPlayers[j].username => i = j

\* C8 as stated: a username takes part in at most one live session, and no
\* session has one username on both sides
OneLiveSessionPerIdentity ==
  /\ \A username \in Usernames :
       Cardinality({i \in SessionIds : Live(Session(i)) /\ username \in Participants(Session(i))}) <= 1
  /\ \A i \in SessionIds : Session(i).player1.username # Session(i).player2.username

\* --------------------------------------------------------- disconnection
PlayerOf(session, isPlayer1) == IF isPlayer1 THEN session.player1 ELSE session.player2

\* the grace timer of a player runs out in this step: it was pending, it is
\* gone, and the player has not come back
GraceExpires(sessionId, isPlayer1) ==
  /\ SessionExists(sessionId)
  /\ GraceTimer(sessionId, isPlayer1) \in DOMAIN timers
  /\ GraceTimer(sessionId, isPlayer1) \notin DOMAIN timers'
  /\ ~PlayerOf(activeSessions'[sessionId], isPlayer1).connected

Dropped(sessionId, isPlayer1) ==
  /\ SessionExists(sessionId)
  /\ ~PlayerOf(Session(sessionId), isPlayer1).connected
  /\ Live(Session(sessionId))

\* while a dropped player's session is live its grace timer is pending, and
\* set for 30 seconds after the drop
GraceTimerRuns ==
  \A sessionId \in SessionIds, isPlayer1 \in BOOLEAN :
    Dropped(sessionId, isPlayer1) =>
      /\ GraceTimer(sessionId, isPlayer1) \in DOMAIN timers
      /\ timers[GraceTimer(sessionId, isPlayer1)]
           = GRACE + PlayerOf(Session(sessionId), isPlayer1).disconnectTime

ForfeitOnExpiry ==
  \A sessionId \in SessionIds, isPlayer1 \in BOOLEAN :
    GraceExpires(sessionId, isPlayer1) /\ Live(Session(sessionId)) =>
      /\ activeSessions'[sessionId].gameEngine.gameOver
      /\ activeSessions'[sessionId].result = "forfeit"
      /\ activeSessions'[sessionId].winner = PlayerOf(Session(sessionId), ~isPlayer1).username

ForfeitAssigned(sessionId) ==
  /\ activeSessions'[sessionId].result = "forfeit"
  /\ \/ Session(sessionId).result # "forfeit"
     \/ activeSessions'[sessionId].winner # Session(sessionId).winner

ForfeitOnlyOnce ==
  \A sessionId \in SessionIds :
    /\ ForfeitAssigned(sessionId) => Live(Session(sessionId))
    /\ ~Live(Session(sessionId)) => ~Live(activeSessions'[sessionId])
    /\ \A isPlayer1 \in BOOLEAN :
         GraceExpires(sessionId, isPlayer1) /\ ~Live(Session(sessionId)) =>
           activeSessions' = activeSessions

\* C10: 'forfeit' and its winner are assigned only to a session that is not
\* over, a session that is over stays over, and a grace timer that runs out on
\* a session that is over changes no session; a forfeited session keeps its
\* result and winner
ForfeitAtMostOnce ==
  /\ [][ForfeitOnlyOnce]_vars
  /\ [](\A sessionId \in SessionIds :
          Session(sessionId).result = "forfeit" =>
            /\ ~Live(Session(sessionId))
            /\ Session(sessionId).winner \in Participants(Session(sessionId)))

\* both players left, the first timer forfeited the session and the second
\* ran out as well
BothGraceTimersExpired ==
  \E sessionId \in SessionIds :
    /\ Session(sessionId).result = "forfeit"
    /\ ~Session(sessionId).isVsBot
    /\ ~Session(sessionId).player1.connected /\ ~Session(sessionId).player2.connected
    /\ GraceTimer(sessionId, TRUE) \notin DOMAIN timers
    /\ GraceTimer(sessionId, FALSE) \notin DOMAIN timers


\* --------------------------------------------------------- reconnection
ExpiredMessage == "Reconnection window expired (30 seconds)"
ReconnectNames == Usernames \cup {BotName}

\* the participant of a session that goes by a username (player1 first, as
\* reconnect looks them up)
IsPlayer1Name(session, username) == session.player1.username = username
Named(session, username) == PlayerOf(session, IsPlayer1Name(session, username))

\* the session was forfeited by this participant: the other one won by forfeit
ForfeitedBy(session, isPlayer1) ==
  /\ session.result = "forfeit"
  /\ session.winner = PlayerOf(session, ~isPlayer1).username

\* this step brings a participant back: they were marked disconnected and are
\* connected again
ComesBack(sessionId, isPlayer1) ==
  /\ SessionExists(sessionId)
  /\ ~PlayerOf(Session(sessionId), isPlayer1).connected
  /\ PlayerOf(activeSessions'[sessionId], isPlayer1).connected

\* C11 as stated: a participant who is connected has no grace timer left to
\* forfeit the session, and no participant comes back to a session that their
\* own drop has already forfeited, the deadline instant included
ReconnectExcludesForfeit ==
  /\ [](\A sessionId \in SessionIds, isPlayer1 \in BOOLEAN :
          PlayerOf(Session(sessionId), isPlayer1).connected =>
            GraceTimer(sessionId, isPlayer1) \notin DOMAIN timers)
  /\ [][\A sessionId \in SessionIds, isPlayer1 \in BOOLEAN :
          ComesBack(sessionId, isPlayer1) => ~ForfeitedBy(Session(sessionId), isPlayer1)]_vars

\* C12 as stated: whenever reconnect answers that the window has expired, the
\* session is forfeited to the other participant
ExpiredMeansForfeited ==
  \A socket \in Sockets, username \in ReconnectNames, sessionId \in SessionIds :
    reconnect(Matchmaker, socket, username, sessionId).error = ExpiredMessage =>
      ForfeitedBy(Session(sessionId), IsPlayer1Name(Session(sessionId), username))

\* a participant's grace deadline has passed: more than 30 seconds since the drop
PastDeadline(player) ==
  player.disconnectTime # NullTime /\ 0 - player.disconnectTime > GRACE

\* C13: a reconnect handled later than 30 seconds after the participant's
\* drop fails with the expiry message and changes nothing, whether or not the
\* grace timer's callback has run, for every socket the request may come from
NoReconnectAfterDeadline ==
  \A socket \in Sockets, username \in ReconnectNames, sessionId \in SessionIds :
    (username \in Participants(Session(sessionId))
       /\ PastDeadline(Named(Session(sessionId), username)))
    => /\ reconnect(Matchmaker, socket, username, sessionId)
            = [m |-> Matchmaker, success |-> FALSE, error |-> ExpiredMessage]
       /\ reconnectOutcome(Matchmaker, socket, username, sessionId)
            = [m |-> Matchmaker, emit |-> EmitError(ExpiredMessage)]

\* a participant is past the deadline while the grace timer's callback has
\* still not run, and a socket is there to ask
LateTimerStillPending ==
  \E sessionId \in SessionIds, isPlayer1 \in BOOLEAN, socket \in Sockets :
    /\ PastDeadline(PlayerOf(Session(sessionId), isPlayer1))
    /\ GraceTimer(sessionId, isPlayer1) \in DOMAIN timers
    /\ Live(Session(sessionId))
    /\ Open(socket)


\* a participant is away inside their grace window: marked disconnected no
\* more than 30 seconds ago
Away(sessionId, isPlayer1) ==
  /\ SessionExists(sessionId)
  /\ ~PlayerOf(Session(sessionId), isPlayer1).connected
  /\ PlayerOf(Session(sessionId), isPlayer1).disconnectTime # NullTime
  /\ 0 - PlayerOf(Session(sessionId), isPlayer1).disconnectTime <= GRACE

\* the mark a participant plays with
MarkOf(isPlayer1) == IF isPlayer1 THEN PLAYER1 ELSE PLAYER2

\* a reconnect for every participant who is away inside the window succeeds,
\* from any socket, and sends the session's state as it is now
ReconnectInWindow ==
  \A sessionId \in SessionIds, isPlayer1 \in BOOLEAN, socket \in Sockets :
    Away(sessionId, isPlayer1) =>
      LET username == PlayerOf(Session(sessionId), isPlayer1).username
          sent == reconnectGameState(Matchmaker, socket, username, sessionId)
      IN /\ reconnect(Matchmaker, socket, username, sessionId).success
         /\ reconnectOutcome(Matchmaker, socket, username, sessionId).emit.event = "playerReconnected"
         /\ sent.board = Engine(sessionId).board
         /\ sent.currentPlayer = Engine(sessionId).currentPlayer
         /\ sent.moveHistory = Engine(sessionId).moveHistory

\* the step leaves the board of a session alone while a participant is away
BoardKeptWhileAway(sessionId, isPlayer1) ==
  (Away(sessionId, isPlayer1) /\ ~PlayerOf(activeSessions'[sessionId], isPlayer1).connected)
    => activeSessions'[sessionId].gameEngine.board = Engine(sessionId).board

\* the step changes the board of a session, while a participant is away,
\* only by marks of the other participant in cells that were empty
OnlyOpponentMovesWhileAway(sessionId, isPlayer1) ==
  (Away(sessionId, isPlayer1) /\ ~PlayerOf(activeSessions'[sessionId], isPlayer1).connected)
    => \A r \in 0..(ROWS - 1), c \in 0..(COLS - 1) :
         LET before == Engine(sessionId).board[r][c]
             after == activeSessions'[sessionId].gameEngine.board[r][c]
         IN after = before \/ (before = EMPTY /\ after = MarkOf(~isPlayer1))

ReconnectSessionIds == 1..(Len(activeSessions) + 1)

\* the failure reconnect must report: the first of the three checks that fails
ExpectedReconnectError(username, sessionId) ==
  IF ~SessionExists(sessionId) THEN "Session not found"
  ELSE IF username \notin Participants(Session(sessionId)) THEN "Username does not match session"
  ELSE IF Named(Session(sessionId), username).disconnectTime = NullTime
          \/ PastDeadline(Named(Session(sessionId), username)) THEN ExpiredMessage
  ELSE ""

\* C15: reconnect fails with 'Session not found' for an unknown session, else
\* with 'Username does not match session' for a name of neither participant,
\* else with the expiry message when the window has passed; each failure is
\* sent to the caller as an error and changes no player, timer, socket id or
\* board
ReconnectFailuresInOrder ==
  \A socket \in Sockets, username \in ReconnectNames, sessionId \in ReconnectSessionIds :
    LET r == reconnect(Matchmaker, socket, username, sessionId)
        expected == ExpectedReconnectError(username, sessionId)
    IN /\ r.error = expected
       /\ r.success = (expected = "")
       /\ ~r.success =>
            /\ r.m = Matchmaker
            /\ reconnectOutcome(Matchmaker, socket, username, sessionId)
                 = [m |-> Matchmaker, emit |-> EmitError(expected)]

\* all three failures can be asked for in one state: a session with a
\* participant past the deadline whose grace timer is still pending, a name
\* that is in no session, and a socket to ask from
ThreeFailuresAtOnce ==
  /\ LateTimerStillPending
  /\ \E username \in ReconnectNames : username \notin Participants(Session(1))
  /\ ~SessionExists(2)


\* what a successful reconnect of `username` from `socket` leaves: no grace
\* timer of theirs, the participant connected with no disconnect time and no
\* timer handle and bound to the socket, the other participant and the engine
\* as they were, and the current board, turn and move log sent back
ReconnectRestores(socket, username, sessionId) ==
  LET session == Session(sessionId)
      isPlayer1 == IsPlayer1Name(session, username)
      out == reconnectOutcome(Matchmaker, socket, username, sessionId)
      after == out.m.activeSessions[sessionId]
      sent == reconnectGameState(Matchmaker, socket, username, sessionId)
  IN /\ GraceTimer(sessionId, isPlayer1) \notin DOMAIN out.m.timers
     /\ PlayerOf(after, isPlayer1)
          = [PlayerOf(session, isPlayer1) EXCEPT !.socketId = socket, !.connected = TRUE,
                                                  !.disconnectTime = NullTime,
                                                  !.reconnectTimeout = NoTimer]
     /\ PlayerOf(after, ~isPlayer1) = PlayerOf(session, ~isPlayer1)
     /\ after.gameEngine = session.gameEngine
     /\ after.result = session.result /\ after.winner = session.winner
     /\ out.emit.event = "playerReconnected"
     /\ sent.board = session.gameEngine.board
     /\ sent.currentPlayer = session.gameEngine.currentPlayer
     /\ sent.moveHistory = session.gameEngine.moveHistory

\* after the reconnect the new socket moves for the participant, and the
\* socket they held before is no participant's any more (the sockets of the
\* two participants being distinct)
ReconnectRebinds(socket, username, sessionId) ==
  LET session == Session(sessionId)
      isPlayer1 == IsPlayer1Name(session, username)
      old == PlayerOf(session, isPlayer1).socketId
      others == PlayerOf(session, ~isPlayer1).socketId
      after == reconnectOutcome(Matchmaker, socket, username, sessionId).m
  IN (others \notin {socket, old}) =>
       \A column \in 0..(COLS - 1) :
         LET new == makeMoveOutcome(after, socket, sessionId, column)
         IN /\ new.emit.message # "Not your game"
            /\ (Live(session) /\ session.gameEngine.currentPlayer = MarkOf(isPlayer1)
                  /\ ColumnOpen(session.gameEngine.board, column))
                 => /\ new.emit.event \in {"gameState", "gameEnded"}
                    /\ new.m.activeSessions[sessionId].gameEngine.board
                         [new.emit.move.row][column] = MarkOf(isPlayer1)
            /\ old # socket =>
                 makeMoveOutcome(after, old, sessionId, column)
                   = [m |-> after, emit |-> EmitError("Not your game")]

JoinPairs(socket, username, gameMode, other) ==
  LET out == joinQueue(Matchmaker, socket, username, gameMode)
      made == out.m.activeSessions[Len(out.m.activeSessions)]
  IN /\ out.error = "" /\ out.paired
     /\ Len(out.m.activeSessions) = Len(activeSessions) + 1
     /\ ~made.isVsBot
     /\ {made.player1.socketId, made.player2.socketId} = {socket, other.socketId}
     /\ ~made.player1.isBot /\ ~made.player2.isBot
     /\ ~InQueue(out.m.waitingPlayers, socket) /\ ~InQueue(out.m.waitingPlayers, other.socketId)
     /\ WaitTimer(socket) \notin DOMAIN out.m.timers
     /\ WaitTimer(other.socketId) \notin DOMAIN out.m.timers

\* a join the matchmaker accepts: the socket is not queued and the name is in
\* no session
Acceptable(socket, username) ==
  /\ socket \notin QueuedSockets
  /\ ~UsernameInGame(activeSessions, username)

\* C17 as stated: every accepted join that finds another identity in the
\* queue, whatever its mode (the handler fills in 'bot' when the client sends
\* none), is paired with a queued entry
EveryJoinPairs ==
  \A socket \in Sockets, username \in Usernames, gameMode \in GameModes :
    (Acceptable(socket, username)
       /\ \E i \in 1..Len(waitingPlayers) : waitingPlayers[i].username # username)
    => \E i \in 1..Len(waitingPlayers) :
         JoinPairs(socket, username, gameMode, waitingPlayers[i])

\* this step makes a session against the bot
BotSessionMade ==
  /\ Len(activeSessions') = Len(activeSessions) + 1
  /\ activeSessions'[Len(activeSessions')].isVsBot

\* C18 as stated: an accepted join that finds the queue empty, whatever its
\* mode, leaves the identity queued with a wait timer of 10 seconds and makes
\* no session; and a session against the bot is made only by a step in which
\* the human's wait timer, due, runs out
AloneWaitsForTimer ==
  /\ [](\A socket \in Sockets, username \in Usernames, gameMode \in GameModes :
          (Acceptable(socket, username) /\ Len(waitingPlayers) = 0)
          => LET out == joinQueue(Matchmaker, socket, username, gameMode)
             IN /\ InQueue(out.m.waitingPlayers, socket)
                /\ WaitTimer(socket) \in DOMAIN out.m.timers
                /\ out.m.timers[WaitTimer(socket)] = WAIT
                /\ out.m.activeSessions = activeSessions)
  /\ [][BotSessionMade =>
          LET socket == activeSessions'[Len(activeSessions')].player1.socketId
          IN /\ Due(WaitTimer(socket))
             /\ WaitTimer(socket) \notin DOMAIN timers']_vars


\* the socket is a human participant of some session
InSession(socket) == \E sessionId \in SessionIds : socket \in HumanSockets(Session(sessionId))

\* every queued socket has its wait timer running, with no more than 10
\* seconds to go
QueuedTimerRuns ==
  \A socket \in QueuedSockets :
    /\ WaitTimer(socket) \in DOMAIN timers
    /\ timers[WaitTimer(socket)] <= WAIT

\* a socket leaves the queue only into a session, unless it disconnects
LeavesQueueIntoSession ==
  \A socket \in QueuedSockets :
    socket \notin {waitingPlayers'[i].socketId : i \in 1..Len(waitingPlayers')}
      => \/ socket \in closed'
         \/ \E sessionId \in (Len(activeSessions) + 1)..Len(activeSessions') :
              socket \in HumanSockets(activeSessions'[sessionId])

\* C19: every accepted joiner that stays connected ends up in a session: a
\* bot-mode join gets its session at once, a queued socket always has its wait
\* timer running with at most 10 seconds left, leaves the queue only into a
\* session (with a human, or with the bot when the timer fires), and does
\* leave it; nobody waits in the queue forever
QueuedEventuallyPlays ==
  /\ []QueuedTimerRuns
  /\ [][LeavesQueueIntoSession]_vars
  /\ \A socket \in Sockets, username \in Usernames :
       [](Acceptable(socket, username) =>
            LET out == joinQueue(Matchmaker, socket, username, "bot")
            IN /\ Len(out.m.activeSessions) = Len(activeSessions) + 1
               /\ socket \in HumanSockets(out.m.activeSessions[Len(out.m.activeSessions)]))
  /\ \A socket \in Sockets :
       (socket \in QueuedSockets) ~> (InSession(socket) \/ socket \in closed)

\* a queued socket has waited its ten seconds: its timer is due, it is still
\* connected, and nobody has come to play
WaitedTenSeconds ==
  \E socket \in QueuedSockets :
    /\ Due(WaitTimer(socket))
    /\ Open(socket)
    /\ ~InSession(socket)


\* --------------------------------------------------------- dropping a piece
\* the lowest empty cell of a column: the empty row with the largest index
LowestEmpty(board, col, row) ==
  /\ row \in 0..(ROWS - 1)
  /\ board[row][col] = EMPTY
  /\ \A r \in (row + 1)..(ROWS - 1) : board[r][col] # EMPTY

\* C20: a successful dropPiece(col) writes the mark of the player to move
\* into the lowest empty cell of the column, changes no other cell, appends
\* the one move (row, col, mark) to the move log, and returns that row with
\* the terminal flag: set exactly when the piece completes a line of four or
\* fills the board, which for a game in progress is the engine's gameOver
DropLandsLowest ==
  \A sessionId \in SessionIds, col \in -1..COLS :
    LET g == Engine(sessionId)
        out == dropPiece(g, col)
        row == out.result.row
    IN out.result.success =>
         /\ col \in 0..(COLS - 1)
         /\ LowestEmpty(g.board, col, row)
         /\ out.engine.board[row][col] = g.currentPlayer
         /\ \A r \in 0..(ROWS - 1), c \in 0..(COLS - 1) :
              <<r, c>> # <<row, col>> => out.engine.board[r][c] = g.board[r][c]
         /\ out.engine.moveHistory
              = Append(g.moveHistory, [row |-> row, col |-> col, player |-> g.currentPlayer])
         /\ out.result.col = col
         /\ ~g.gameOver => out.result.gameOver = out.engine.gameOver
         /\ out.result.gameOver
              = (checkWin(out.engine.board, row, col, g.currentPlayer)
                   \/ isBoardFull(out.engine.board))

\* the last piece dropped came to rest on another piece, in a column that
\* still has room, in a game that goes on
LandedOnAPiece ==
  \E sessionId \in SessionIds :
    LET g == Engine(sessionId)
        last == g.moveHistory[Len(g.moveHistory)]
    IN /\ Len(g.moveHistory) > 1
       /\ last.row < ROWS - 1
       /\ g.board[last.row][last.col] = last.player
       /\ g.board[last.row + 1][last.col] # EMPTY
       /\ ColumnOpen(g.board, last.col)
       /\ ~g.gameOver


\* --------------------------------------------------------- the board
Rows == 0..(ROWS - 1)
Cols == 0..(COLS - 1)
Marks == {PLAYER1, PLAYER2}

\* no empty cell lies below an occupied one
Contiguous(board) ==
  \A r \in 0..(ROWS - 2), c \in Cols : board[r][c] # EMPTY => board[r + 1][c] # EMPTY

\* every occupied cell of `before` holds the same mark in `after`
KeepsMarks(before, after) ==
  \A r \in Rows, c \in Cols : before[r][c] # EMPTY => after[r][c] = before[r][c]

\* what the lifecycle operations and the bot's scoring would leave of a
\* session's board, were they called now: the very same board
OffBoardOperationsKeepBoard(sessionId) ==
  LET board == Engine(sessionId).board
      BoardIn(m) == m.activeSessions[sessionId].gameEngine.board
  IN /\ \A col \in -1..COLS, player \in Marks : evaluateMove(board, col, player).board = board
     /\ getBestMove(board).board = board
     /\ \A socket \in Sockets :
          /\ BoardIn(markDisconnected(Matchmaker, socket)) = board
          /\ BoardIn(disconnectOutcome(Matchmaker, socket).m) = board
          /\ \A username \in ReconnectNames :
               BoardIn(reconnectOutcome(Matchmaker, socket, username, sessionId).m) = board
     /\ \A isPlayer1 \in BOOLEAN : BoardIn(forfeitGame(Matchmaker, sessionId, isPlayer1)) = board

\* C21: a cell that holds a mark keeps it through every step (moves, bot
\* replies) and through scoring, drop, reconnect and forfeit, and in every
\* column the marks are stacked from the bottom row with no gap
BoardOnlyGrows ==
  /\ [](\A sessionId \in SessionIds :
          Contiguous(Engine(sessionId).board) /\ OffBoardOperationsKeepBoard(sessionId))
  /\ [][\A sessionId \in SessionIds :
          KeepsMarks(Engine(sessionId).board, activeSessions'[sessionId].gameEngine.board)]_vars

\* a column holds marks of both players stacked four high under empty
\* cells, next to a column that is still empty
MixedStack ==
  \E sessionId \in SessionIds, c \in Cols, d \in Cols :
    LET board == Engine(sessionId).board
    IN /\ board[ROWS - 4][c] # EMPTY /\ board[ROWS - 5][c] = EMPTY
       /\ {board[r][c] : r \in (ROWS - 4)..(ROWS - 1)} = Marks
       /\ board[ROWS - 1][d] = EMPTY


\* --------------------------------------------------------- draws
AllCellsOccupied(board) == \A r \in Rows, c \in Cols : board[r][c] # EMPTY

\* what dropPiece reports for a piece that lands: a draw exactly when the
\* board is then full and the piece completes no line; a line on the last
\* cell is a win for the mover, not a draw
DrawReport(g, col) ==
  LET out == dropPiece(g, col)
      row == out.result.row
      won == RunThrough(out.engine.board, row, col, g.currentPlayer)
      full == AllCellsOccupied(out.engine.board)
  IN out.result.success =>
       /\ out.result.isDraw = (full /\ ~won)
       /\ out.result.isDraw =>
            /\ out.result.gameOver /\ out.result.winner = NullPlayer
            /\ out.engine.isDraw /\ out.engine.gameOver
            /\ ~g.gameOver => out.engine.winner = NullPlayer
       /\ won =>
            /\ out.result.gameOver /\ out.result.winner = g.currentPlayer
            /\ out.engine.gameOver /\ out.engine.winner = g.currentPlayer
            /\ out.engine.isDraw = g.isDraw

\* this step puts a piece in the last empty cell of a session's board
FillsBoard(sessionId) ==
  /\ ~AllCellsOccupied(Engine(sessionId).board)
  /\ AllCellsOccupied(activeSessions'[sessionId].gameEngine.board)

\* C22: a move that fills the last empty cell without completing a line of
\* four is a draw (board full, isDraw set, no winner), and a move that fills
\* the last cell and completes a line is a win, not a draw; isBoardFull is
\* true exactly when no cell is empty
DrawOnlyWithoutWin ==
  /\ [](\A sessionId \in SessionIds :
          /\ isBoardFull(Engine(sessionId).board) = AllCellsOccupied(Engine(sessionId).board)
          /\ \A col \in Cols : DrawReport(Engine(sessionId), col))
  /\ [][\A sessionId \in SessionIds :
          FillsBoard(sessionId) =>
            LET g == activeSessions'[sessionId].gameEngine
                last == g.moveHistory[Len(g.moveHistory)]
                won == RunThrough(g.board, last.row, last.col, last.player)
            IN /\ g.gameOver
               /\ g.isDraw = ~won
               /\ g.winner = (IF won THEN last.player ELSE NullPlayer)]_vars

\* all 42 cells are taken, no line of four was made, and the game is a draw
BoardFilledDrawn ==
  \E sessionId \in SessionIds :
    /\ AllCellsOccupied(Engine(sessionId).board)
    /\ Len(Engine(sessionId).moveHistory) = ROWS * COLS
    /\ Engine(sessionId).isDraw /\ Engine(sessionId).gameOver
    /\ Engine(sessionId).winner = NullPlayer


\* --------------------------------------------------------- turns
CellsOf(board, player) == {cell \in Rows \X Cols : board[cell[1]][cell[2]] = player}

\* the moves of the log carry the two marks in turn, PLAYER1 first
LogAlternates(log) ==
  \A i \in 1..Len(log) : log[i].player = (IF i % 2 = 1 THEN PLAYER1 ELSE PLAYER2)

\* C23 as stated: in every session the accepted moves alternate between the
\* two marks, PLAYER1 first, so that PLAYER1 has as many cells as PLAYER2 or
\* one more; and the turn passes to the other player exactly in the steps that
\* add a move and do not end the game
MovesAlternate ==
  /\ [](\A sessionId \in SessionIds :
          /\ LogAlternates(Engine(sessionId).moveHistory)
          /\ Cardinality(CellsOf(Engine(sessionId).board, PLAYER1))
               - Cardinality(CellsOf(Engine(sessionId).board, PLAYER2)) \in {0, 1})
  /\ [][\A sessionId \in SessionIds :
          LET before == Engine(sessionId)
              after == activeSessions'[sessionId].gameEngine
          IN (after.currentPlayer # before.currentPlayer)
               <=> (Len(after.moveHistory) = Len(before.moveHistory) + 1 /\ ~after.gameOver)]_vars


\* --------------------------------------------------------- scoring a candidate
\* C24: evaluateMove returns the board exactly as it found it, for every
\* column (legal, full, out of range) and either mark, on each of its
\* returns; it writes nothing but its trial cell, so that a whole bot move
\* leaves the turn, the move log and the game-over flags as dropPiece alone
\* on the chosen column would
ScoringLeavesNoTrace ==
  \A sessionId \in SessionIds :
    LET g == Engine(sessionId)
        made == makeMove(g)
    IN /\ \A col \in -1..COLS, player \in Marks :
            evaluateMove(g.board, col, player).board = g.board
       /\ ~made.threw => made.engine = dropPiece(g, getBestMove(g.board).col).engine
       /\ made.threw => made.engine = g

\* one board on which evaluateMove takes each of its returns: a full column,
\* a column that wins for one mark (and so blocks for the other), and a column
\* scored by position
EveryScoringReturn ==
  \E sessionId \in SessionIds :
    LET board == Engine(sessionId).board
    IN /\ \E full \in Cols : ~ColumnOpen(board, full)
       /\ ~Engine(sessionId).gameOver
       /\ \E full \in Cols, player \in Marks :
            evaluateMove(board, full, player).score = INVALID_SCORE
       /\ \E winning \in Cols, player \in Marks :
            /\ evaluateMove(board, winning, player).score = WIN_SCORE
            /\ evaluateMove(board, winning, otherPlayer(player)).score = BLOCK_SCORE
       /\ \E plain \in Cols : \A player \in Marks :
            evaluateMove(board, plain, player).score \in 0..(BLOCK_SCORE - 1)


\* the cells around a cell that hold a mark: up to eight neighbours
NeighboursOf(board, row, col, player) ==
  {cell \in Rows \X Cols :
     /\ cell # <<row, col>>
     /\ Abs(cell[1] - row) <= 1 /\ Abs(cell[2] - col) <= 1
     /\ board[cell[1]][cell[2]] = player}

\* the score of an open column for a mark, from the landing cell: a win, else
\* a block, else the position
ExpectedScore(board, col, player) ==
  LET row == CHOOSE r \in Rows : LowestEmpty(board, col, r)
      mine == [board EXCEPT ![row][col] = player]
      theirs == [board EXCEPT ![row][col] = otherPlayer(player)]
  IN IF RunThrough(mine, row, col, player) THEN WIN_SCORE
     ELSE IF RunThrough(theirs, row, col, otherPlayer(player)) THEN BLOCK_SCORE
     ELSE (3 - Abs(col - 3)) * 100 + 50 * Cardinality(NeighboursOf(board, row, col, player))

\* C25: for an open column evaluateMove returns 10000 exactly when the mark
\* in the landing cell completes a line of four, else 8000 exactly when the
\* other mark there would, else (3 - |col - 3|) * 100 plus 50 for each of the
\* eight neighbours of the landing cell that holds the mark, which is less
\* than 8000
ScoreByBranch ==
  \A sessionId \in SessionIds, col \in Cols, player \in Marks :
    LET board == Engine(sessionId).board
        score == evaluateMove(board, col, player).score
    IN ColumnOpen(board, col) =>
         /\ score = ExpectedScore(board, col, player)
         /\ score \notin {WIN_SCORE, BLOCK_SCORE} => (score >= 0 /\ score < BLOCK_SCORE)

\* the centre column scores by position with neighbours of the mark around
\* the landing cell, on a board where another column wins at once
NeighboursCounted ==
  \E sessionId \in SessionIds, player \in Marks :
    LET board == Engine(sessionId).board
    IN /\ ColumnOpen(board, 3)
       /\ evaluateMove(board, 3, player).score \in 400..(BLOCK_SCORE - 1)
       /\ \E col \in Cols : ColumnOpen(board, col) /\ evaluateMove(board, col, player).score = WIN_SCORE


\* --------------------------------------------------------- the bot's choice
OpenColumns(board) == {col \in Cols : ColumnOpen(board, col)}
LowestOf(columns) == CHOOSE col \in columns : \A other \in columns : col <= other

\* the open columns in which the mark completes a line of four at once
WinningColumns(board, player) ==
  {col \in OpenColumns(board) : ExpectedScore(board, col, player) = WIN_SCORE}

\* the open columns with the highest score for the bot
BestColumns(board) ==
  Const({ExpectedScore(board, col, PLAYER2) : col \in OpenColumns(board)}, LAMBDA scores :
    Const(CHOOSE best \in scores : \A other \in scores : best >= other, LAMBDA best :
      {col \in OpenColumns(board) : ExpectedScore(board, col, PLAYER2) = best}))

\* C26: on a board where the bot can win at once, getBestMove chooses the
\* lowest winning column, so it never chooses a column that only blocks the
\* human's win while a winning one is open; and on its turn the bot's move
\* lands there and wins
WinBeforeBlock ==
  \A sessionId \in SessionIds :
    LET g == Engine(sessionId)
        wins == WinningColumns(g.board, PLAYER2)
    IN wins # {} =>
         /\ getBestMove(g.board).col = LowestOf(wins)
         /\ g.currentPlayer = PLAYER2 =>
              /\ makeMove(g).result.col = LowestOf(wins)
              /\ makeMove(g).result.gameOver /\ makeMove(g).result.winner = PLAYER2

\* it is the bot's turn in its session, one column wins for it, and another
\* column is where the human would win
BotCanWinOrBlock ==
  \E sessionId \in SessionIds :
    LET g == Engine(sessionId)
    IN /\ Session(sessionId).isVsBot /\ ~g.gameOver /\ g.currentPlayer = PLAYER2
       /\ BotTimer(sessionId) \in DOMAIN timers
       /\ WinningColumns(g.board, PLAYER2) # {}
       /\ WinningColumns(g.board, PLAYER1) \ WinningColumns(g.board, PLAYER2) # {}

\* C27: on a board where the bot cannot win at once and the human could,
\* getBestMove chooses the lowest column in which the human would win
BlockWhenNoWin ==
  \A sessionId \in SessionIds :
    LET g == Engine(sessionId)
        threats == WinningColumns(g.board, PLAYER1)
    IN (WinningColumns(g.board, PLAYER2) = {} /\ threats # {}) =>
         /\ getBestMove(g.board).col = LowestOf(threats)
         /\ makeMove(g).result.col = LowestOf(threats)

\* it is the bot's turn in its session, it cannot win at once, and the human
\* threatens to win in two columns
BotMustBlockOneOfTwo ==
  \E sessionId \in SessionIds :
    LET g == Engine(sessionId)
    IN /\ Session(sessionId).isVsBot /\ ~g.gameOver /\ g.currentPlayer = PLAYER2
       /\ BotTimer(sessionId) \in DOMAIN timers
       /\ WinningColumns(g.board, PLAYER2) = {}
       /\ Cardinality(WinningColumns(g.board, PLAYER1)) >= 2

\* C28: on a board where neither side can win at once, getBestMove chooses
\* the open column with the highest score for the bot, the lowest such column
\* when several share that score
BestScoreLowestIndex ==
  \A sessionId \in SessionIds :
    LET g == Engine(sessionId)
    IN (WinningColumns(g.board, PLAYER2) = {} /\ WinningColumns(g.board, PLAYER1) = {}
          /\ OpenColumns(g.board) # {}) =>
         Const(LowestOf(BestColumns(g.board)), LAMBDA expected :
           /\ getBestMove(g.board).col = expected
           /\ makeMove(g).result.col = expected)

\* it is the bot's turn in its session, nobody can win at once, several
\* columns share the highest score and the lowest of them is not the first
\* open column
BotBreaksTie ==
  \E sessionId \in SessionIds :
    LET g == Engine(sessionId)
    IN /\ Session(sessionId).isVsBot /\ ~g.gameOver /\ g.currentPlayer = PLAYER2
       /\ BotTimer(sessionId) \in DOMAIN timers
       /\ WinningColumns(g.board, PLAYER2) = {} /\ WinningColumns(g.board, PLAYER1) = {}
       /\ Const(BestColumns(g.board), LAMBDA best :
            Cardinality(best) >= 2 /\ LowestOf(best) # LowestOf(OpenColumns(g.board)))


\* the engines that hold the same board as `g` with another past: no move
\* log or the present one, either turn, any terminal flags
SameBoardEngines(g) ==
  {[g EXCEPT !.moveHistory = log, !.currentPlayer = turn, !.gameOver = over,
             !.isDraw = FALSE, !.winner = NullPlayer] :
     log \in {<< >>, g.moveHistory}, turn \in Marks, over \in BOOLEAN}

\* this step is the bot's reply in a session: its timer was due and is gone,
\* and the log has one more move
BotReplied(sessionId) ==
  /\ SessionExists(sessionId)
  /\ Due(BotTimer(sessionId))
  /\ BotTimer(sessionId) \notin DOMAIN timers'
  /\ Len(activeSessions'[sessionId].gameEngine.moveHistory) = Len(Engine(sessionId).moveHistory) + 1

\* C29: the bot's column is a function of the board alone: every engine that
\* holds the same board, whatever its move log, turn or flags, gets the same
\* column from makeMove, a second call of getBestMove gives the same column
\* as the first and the call leaves the board as it was; and in every session
\* the reply the timer plays is the column getBestMove gives for the board
BotChoiceFromBoardAlone ==
  /\ [](\A sessionId \in SessionIds :
          Const(getBestMove(Engine(sessionId).board), LAMBDA best :
            /\ best.board = Engine(sessionId).board
            /\ getBestMove(best.board).col = best.col
            /\ \A other \in SameBoardEngines(Engine(sessionId)) :
                 Const(makeMove(other), LAMBDA made :
                   IF best.col = -1 THEN made.threw
                   ELSE ~made.threw /\ made.result.col = best.col)))
  /\ [][\A sessionId \in SessionIds :
          BotReplied(sessionId) =>
            LET log == activeSessions'[sessionId].gameEngine.moveHistory
            IN log[Len(log)].col = getBestMove(Engine(sessionId).board).col]_vars

\* the bot is about to choose for the third time in its session
BotChoosesAgain ==
  \E sessionId \in SessionIds :
    /\ Session(sessionId).isVsBot
    /\ Due(BotTimer(sessionId))
    /\ Len(Engine(sessionId).moveHistory) = 5
    /\ ~Engine(sessionId).gameOver


\* --------------------------------------------------------- the bot's connection
\* the bot as createSession makes it: connected, never disconnected, no
\* socket, no grace timer handle
BotUntouched(player) ==
  /\ player.connected
  /\ player.disconnectTime = NullTime
  /\ player.socketId = NullSocket
  /\ player.reconnectTimeout = NoTimer

\* C30: the bot is connected in every reachable state: it has no disconnect
\* time, no socket and no grace timer, no drop of any socket marks it, no
\* reconnect in its name is accepted, and no session is forfeited by the bot
BotAlwaysConnected ==
  \A sessionId \in SessionIds, isPlayer1 \in BOOLEAN :
    PlayerOf(Session(sessionId), isPlayer1).isBot =>
      /\ BotUntouched(PlayerOf(Session(sessionId), isPlayer1))
      /\ GraceTimer(sessionId, isPlayer1) \notin DOMAIN timers
      /\ ~ForfeitedBy(Session(sessionId), isPlayer1)
      /\ forfeitGame(Matchmaker, sessionId, ~isPlayer1).activeSessions[sessionId].winner
           \in {BotName, Session(sessionId).winner}
      /\ \A socket \in Sockets :
           /\ BotUntouched(PlayerOf(disconnectOutcome(Matchmaker, socket).m.activeSessions[sessionId],
                                    isPlayer1))
           /\ ~reconnect(Matchmaker, socket, BotName, sessionId).success
           /\ reconnectOutcome(Matchmaker, socket, BotName, sessionId).m = Matchmaker

\* the human of a bot session dropped and did not come back: the session is
\* forfeited to the bot, and another socket is open
BotWonByForfeit ==
  \E sessionId \in SessionIds, socket \in Sockets :
    /\ Session(sessionId).isVsBot
    /\ Session(sessionId).result = "forfeit"
    /\ Session(sessionId).winner = BotName
    /\ ~Session(sessionId).player1.connected
    /\ Open(socket)

\* ------------------------------------------------------------ notifications
Terminated(session) == session.result # NullName

\* the step is a handler run that hands the session to sendGameEnded and
\* saveGame and emits gameEnded: onMakeMove on a terminal move, or the bot's
\* reply callback on a terminal reply
EndAnnounced(sessionId) ==
  \/ \E socket \in Sockets, column \in 0..(COLS - 1) :
       /\ Open(socket)
       /\ LET out == makeMoveOutcome(Matchmaker, socket, sessionId, column)
          IN out.emit.event = "gameEnded" /\ Matchmaker' = out.m
  \/ /\ Due(BotTimer(sessionId))
     /\ LET out == botReply(Fired(BotTimer(sessionId)), sessionId)
        IN out.emit.event = "gameEnded" /\ Matchmaker' = out.m

\* C31: a session is announced as ended, and archived, in exactly the steps in
\* which it reaches its terminal outcome (win, draw or forfeit): once for
\* every session that terminates, never for one that has not
EndedAnnouncedOnce ==
  [][\A sessionId \in SessionIds :
       (~Terminated(Session(sessionId)) /\ Terminated(Session(sessionId))')
         <=> EndAnnounced(sessionId)]_vars

\* the step is a run of onJoinQueue that emits gameMatched and calls
\* sendGameStarted for the session it has just created
StartAnnounced ==
  \E socket \in Sockets, username \in Usernames, gameMode \in GameModes :
     /\ Open(socket)
     /\ LET out == joinQueueOutcome(Matchmaker, socket, username, gameMode)
        IN out.emit.event = "gameMatched" /\ Matchmaker' = out.m

\* C32: a session is announced as started in exactly the steps that create
\* one, whether by pairing, by immediate assignment of the bot or by the
\* wait timer's fallback
StartedAnnouncedOnce ==
  [][(Len(activeSessions') = Len(activeSessions) + 1) <=> StartAnnounced]_vars

\* ---- two sessions side by side: the k-th socket joins under the k-th
\* name, a move and the bot's reply in each session, drops, reconnects and every timer
People == <<"alice", "bob", "carol">>

JoinNamed ==
  \E socket \in 1..Len(People), gameMode \in GameModes :
     /\ \/ Len(activeSessions) + Len(waitingPlayers) < MaxSessions
        \/ /\ Len(activeSessions) + Len(waitingPlayers) = MaxSessions
           /\ Len(waitingPlayers) > 0 /\ gameMode = "human"
     /\ OnJoinQueue(socket, People[socket], gameMode)

NextSide ==
  \/ OnConnection
  \/ JoinNamed
  \/ \E socket \in Sockets, sessionId \in 1..MaxSessions, column \in 0..MaxCol :
       /\ MoveCount(sessionId) < MaxMoves
       /\ OnMakeMove(socket, sessionId, column)
  \/ \E sessionId \in 1..MaxSessions : BotMoveTimeout(sessionId)
  \/ \E socket \in Sockets : OnDisconnect(socket)
  \/ \E socket \in Sockets, username \in Usernames, sessionId \in 1..MaxSessions :
       OnReconnect(socket, username, sessionId)
  \/ \E socket \in Sockets : MatchmakingTimeout(socket)
  \/ \E sessionId \in 1..MaxSessions, isPlayer1 \in BOOLEAN : ReconnectTimeout(sessionId, isPlayer1)
  \/ Tick

SpecSide == Init /\ [][NextSide]_vars

\* what a session shows of itself: board, turn, who is connected on which
\* socket, and how it ended
Shown(session) ==
  [board |-> session.gameEngine.board,
   currentPlayer |-> session.gameEngine.currentPlayer,
   gameOver |-> session.gameEngine.gameOver,
   moves |-> Len(session.gameEngine.moveHistory),
   sockets |-> <<session.player1.socketId, session.player2.socketId>>,
   connected |-> <<session.player1.connected, session.player2.connected>>,
   result |-> session.result,
   winner |-> session.winner]

\* the sessions that the step changes
Touched ==
  {sessionId \in SessionIds : Shown(activeSessions'[sessionId]) # Shown(Session(sessionId))}

\* C33: a step (a move, a bot reply, a drop, a reconnect, a forfeit, a join)
\* changes at most one existing session, and a step that changes a session
\* leaves the wait queue and its timers as they were
SessionsIndependent ==
  [][/\ Cardinality(Touched) <= 1
     /\ Touched # {} => /\ waitingPlayers' = waitingPlayers
                        /\ matchmakingTimeouts' = matchmakingTimeouts
     /\ \A sessionId \in SessionIds : activeSessions'[sessionId].sessionId = sessionId]_vars

\* two sessions, one played in and still going, the other forfeited
PlayedBesideForfeited ==
  /\ Len(activeSessions) = 2
  /\ \E a, b \in SessionIds :
       /\ MoveCount(a) > 0 /\ ~Terminated(Session(a)) /\ Session(a).player1.connected
       /\ Session(b).result = "forfeit" /\ MoveCount(b) = 0

\* C34: a session whose result is 'draw' has no winner, whether the board was
\* filled by a human's move or by the bot's reply
DrawHasNoWinner ==
  \A sessionId \in SessionIds :
     Session(sessionId).result = "draw" => Session(sessionId).winner = NullName

\* C35: once a session has a result, no step changes its result or its
\* winner
OutcomeFinal ==
  [][\A sessionId \in SessionIds :
       Terminated(Session(sessionId)) =>
         /\ activeSessions'[sessionId].result = Session(sessionId).result
         /\ activeSessions'[sessionId].winner = Session(sessionId).winner]_vars

\* the participant who plays a mark
IdentityOf(session, mark) ==
  IF mark = PLAYER1 THEN session.player1.username ELSE session.player2.username

\* C36: when a step ends a session with result 'win', the step has added one
\* move, the winner is the participant whose mark that move placed (the
\* first participant for PLAYER1, the second or the bot for PLAYER2), and the
\* board holds a line of four of that mark through the new piece
WinnerIsFinalMover ==
  [][\A sessionId \in SessionIds :
       LET after == activeSessions'[sessionId]
           log == after.gameEngine.moveHistory
       IN (Session(sessionId).result # "win" /\ after.result = "win") =>
            /\ Len(log) = MoveCount(sessionId) + 1
            /\ LET last == log[Len(log)]
               IN /\ after.winner = IdentityOf(after, last.player)
                  /\ after.gameEngine.winner = last.player
                  /\ after.gameEngine.board[last.row][last.col] = last.player
                  /\ RunThrough(after.gameEngine.board, last.row, last.col, last.player)]_vars

\* the bot has won a session by its own reply
BotWonByReply ==
  /\ SessionIds # {}
  /\ Session(1).isVsBot
  /\ Session(1).result = "win"
  /\ Session(1).winner = BotName
  /\ Engine(1).moveHistory[MoveCount(1)].player = PLAYER2

\* the human participants of a session, by name
HumanNames(session) ==
  {session.player1.username} \cup (IF session.isVsBot THEN {} ELSE {session.player2.username})

\* C37: a human participant of a terminated session, who is in no session
\* still being played, is not refused as a duplicate when joining again
RejoinAfterEnd ==
  \A sessionId \in SessionIds, socket \in Sockets, gameMode \in GameModes :
     \A username \in HumanNames(Session(sessionId)) :
        (/\ Terminated(Session(sessionId))
         /\ Open(socket) /\ ~InQueue(waitingPlayers, socket)
         /\ \A other \in SessionIds :
              ~Terminated(Session(other)) => username \notin HumanNames(Session(other)))
          => joinQueue(Matchmaker, socket, username, gameMode).error = ""

\* C38: between two operations of the matchmaker the queue holds at most one
\* entry, each queued socket has its wait timer registered and pending, and
\* there is no wait timer, registered or pending, for a socket that is not
\* queued
QueueHoldsOne ==
  /\ Len(waitingPlayers) <= 1
  /\ \A socket \in Sockets :
       /\ socket \in QueuedSockets <=> matchmakingTimeouts[socket] = WaitTimer(socket)
       /\ socket \in QueuedSockets <=> WaitTimer(socket) \in DOMAIN timers
  /\ \A handle \in DOMAIN timers : handle.kind = "wait" => handle.socketId \in QueuedSockets

\* one socket waits with its timer running beside a session made by pairing
\* two others
WaitsBesidePairing ==
  /\ Len(waitingPlayers) = 1
  /\ WaitTimer(waitingPlayers[1].socketId) \in DOMAIN timers
  /\ \E sessionId \in SessionIds : ~Session(sessionId).isVsBot

\* C39: when a queued socket disconnects, the step removes its entry and
\* cancels its wait timer without creating a session; a socket that has
\* disconnected is never queued and never has a wait timer again; and no
\* session is created, by pairing or by the timer, with a socket that had
\* disconnected before
QueueDropIsFinal ==
  [][/\ \A socket \in QueuedSockets :
          socket \in closed' =>
            /\ ~InQueue(waitingPlayers', socket)
            /\ WaitTimer(socket) \notin DOMAIN timers'
            /\ matchmakingTimeouts'[socket] = NoTimer
            /\ activeSessions' = activeSessions
     /\ \A socket \in closed :
          /\ ~InQueue(waitingPlayers', socket)
          /\ WaitTimer(socket) \notin DOMAIN timers'
     /\ Len(activeSessions') > Len(activeSessions) =>
          HumanSockets(activeSessions'[Len(activeSessions')]) \cap closed = {}]_vars

\* a socket that has waited for a while beside a session drops out of the
\* queue: its disconnect takes the entry and the timer away
QueuedSocketDrops ==
  \E socket \in QueuedSockets :
     /\ Open(socket)
     /\ Len(activeSessions) > 0
     /\ WaitTimer(socket) \in DOMAIN timers /\ timers[WaitTimer(socket)] < WAIT
     /\ LET after == disconnectOutcome(Matchmaker, socket).m
        IN /\ after.waitingPlayers = << >>
           /\ WaitTimer(socket) \notin DOMAIN after.timers
           /\ after.activeSessions = activeSessions

\* the step is a run of onMakeMove on the session that emits `event`
HumanMoved(sessionId, event) ==
  \E socket \in Sockets, column \in 0..(COLS - 1) :
     /\ Open(socket)
     /\ LET out == makeMoveOutcome(Matchmaker, socket, sessionId, column)
        IN out.emit.event = event /\ Matchmaker' = out.m

\* the step is the bot's reply callback of the session
BotReplyRuns(sessionId) ==
  /\ Due(BotTimer(sessionId))
  /\ Matchmaker' = botReply(Fired(BotTimer(sessionId)), sessionId).m

\* C40: in a session against the bot an accepted human move that does not
\* end the game schedules exactly one reply and one that ends it schedules
\* none; the reply runs while the session has no result, on PLAYER2's turn,
\* and drops one PLAYER2 piece into an open column without failing
BotRepliesInPlay ==
  [][\A sessionId \in SessionIds :
       Session(sessionId).isVsBot =>
         /\ HumanMoved(sessionId, "gameState") =>
              /\ BotTimer(sessionId) \notin DOMAIN timers
              /\ BotTimer(sessionId) \in DOMAIN timers'
         /\ HumanMoved(sessionId, "gameEnded") => BotTimer(sessionId) \notin DOMAIN timers'
         /\ BotReplyRuns(sessionId) =>
              LET made == makeMove(Engine(sessionId))
              IN /\ ~Terminated(Session(sessionId))
                 /\ ~Engine(sessionId).gameOver
                 /\ Engine(sessionId).currentPlayer = PLAYER2
                 /\ ~made.threw /\ made.result.success
                 /\ ColumnOpen(Engine(sessionId).board, made.result.col)
                 /\ made.engine.board[made.result.row][made.result.col] = PLAYER2
                 /\ BotTimer(sessionId) \notin DOMAIN timers']_vars

====
